---- MODULE Spec2Model ----
(***************************************************************************)
(* Caltech Course Tooltip: the course-code recognition and resolution      *)
(* engine (content script scanner, background catalog matcher, synthetic   *)
(* section composer).                                                      *)
(*                                                                         *)
(* Strings are sequences of one-character strings.  Offsets are the        *)
(* 0-based offsets of the JavaScript source: the character at offset p of  *)
(* s is s[p+1].                                                            *)
(***************************************************************************)
EXTENDS Integers, Sequences, FiniteSets, TLC

VARIABLES
  pc,            \* position of the modelled call
  catalog,       \* the course catalog (catalog.json as loaded by loadCourseData)
  text,          \* textNode.textContent of the text node being processed
  allMatches,    \* processTextNode: result of detectCourseInText
  validMatches,  \* processTextNode: validated matches, sorted by index
  nodes,         \* the child nodes standing where the text node was inserted
  code,          \* argument of a direct call to the background matcher
  result,        \* value returned by that call
  session,       \* the background session: catalog cache, fetches, requests
  tooltip        \* the content script's tooltip: pin state, timers, the event handled last

vars == <<pc, catalog, text, allMatches, validMatches, nodes, code, result, session, tooltip>>

----------------------------------------------------------------------------
(* Character classes of the regular expressions *)

Digit == {"0", "1", "2", "3", "4", "5", "6", "7", "8", "9"}

LowerSeq == <<"a", "b", "c", "d", "e", "f", "g", "h", "i", "j", "k", "l", "m",
              "n", "o", "p", "q", "r", "s", "t", "u", "v", "w", "x", "y", "z">>

UpperSeq == <<"A", "B", "C", "D", "E", "F", "G", "H", "I", "J", "K", "L", "M",
              "N", "O", "P", "Q", "R", "S", "T", "U", "V", "W", "X", "Y", "Z">>

Lower == {LowerSeq[i] : i \in DOMAIN LowerSeq}

Upper == {UpperSeq[i] : i \in DOMAIN UpperSeq}

Letter == Lower \cup Upper

\* \s
White == {" ", "\n", "\t"}

\* \w
Word == Letter \cup Digit \cup {"_"}

UpperOf == [c \in Lower |-> UpperSeq[CHOOSE i \in DOMAIN LowerSeq : LowerSeq[i] = c]]

LowerOf == [c \in Upper |-> LowerSeq[CHOOSE i \in DOMAIN UpperSeq : UpperSeq[i] = c]]

\* Op applied to the value of v, which is computed once (a const declaration)
With(v, Op(_)) == CHOOSE r \in {Op(x) : x \in {v}} : TRUE

toUpperCase(s) ==
  With(s, LAMBDA x : <<>> \o [i \in 1..Len(x) |-> IF x[i] \in Lower THEN UpperOf[x[i]] ELSE x[i]])

toLowerCase(s) ==
  With(s, LAMBDA x : <<>> \o [i \in 1..Len(x) |-> IF x[i] \in Upper THEN LowerOf[x[i]] ELSE x[i]])

----------------------------------------------------------------------------
(* String primitives *)

\* s.slice(a, b) for 0 <= a <= b <= s.length
Slice(s, a, b) == SubSeq(s, a + 1, b)

\* offset just past the longest run of characters of class C that starts at p
RECURSIVE RunEnd(_, _, _)
RunEnd(s, p, C) == IF p < Len(s) /\ s[p + 1] \in C THEN RunEnd(s, p + 1, C) ELSE p

\* offset at which the longest run of characters of class C that ends at p starts
RECURSIVE RunStart(_, _, _)
RunStart(s, p, C) == IF p > 0 /\ s[p] \in C THEN RunStart(s, p - 1, C) ELSE p

trim(s) ==
  With(s, LAMBDA x :
    IF RunEnd(x, 0, White) = Len(x) THEN <<>>
    ELSE Slice(x, RunEnd(x, 0, White), RunStart(x, Len(x), White)))

RECURSIVE replaceFrom(_, _, _, _)
replaceFrom(s, p, C, rep) ==
  IF p >= Len(s) THEN <<>>
  ELSE IF s[p + 1] \in C
       THEN rep \o With(RunEnd(s, p, C), LAMBDA e : replaceFrom(s, e, C, rep))
       ELSE <<s[p + 1]>> \o replaceFrom(s, p + 1, C, rep)

\* s.replace(/[C]+/g, rep), from offset p on
ReplaceRuns(s, p, C, rep) ==
  With(s, LAMBDA x :
    IF rep = <<>> /\ p = 0 THEN SelectSeq(x, LAMBDA c : c \notin C)
    ELSE replaceFrom(x, p, C, rep))

\* s.startsWith(w, p)
StartsWithAt(s, p, w) == p + Len(w) <= Len(s) /\ Slice(s, p, p + Len(w)) = w

RECURSIVE indexFrom(_, _, _)
indexFrom(s, w, q) ==
  IF q + Len(w) > Len(s) THEN -1
  ELSE IF Slice(s, q, q + Len(w)) = w THEN q
  ELSE indexFrom(s, w, q + 1)

\* s.indexOf(w, from), with a negative from treated as 0
indexOf(s, w, from) ==
  With(s, LAMBDA x : With(w, LAMBDA y : With(from, LAMBDA f :
    indexFrom(x, y, IF f < 0 THEN 0 ELSE f))))

includes(s, w) == indexOf(s, w, 0) # -1

RECURSIVE splitFrom(_, _, _)
splitFrom(s, sep, from) ==
  With(indexFrom(s, sep, from), LAMBDA q :
    IF q = -1 THEN <<Slice(s, from, Len(s))>>
    ELSE <<Slice(s, from, q)>> \o splitFrom(s, sep, q + 1))

\* s.split(sep) for a one-character separator
split(s, sep) == With(s, LAMBDA x : splitFrom(x, <<sep>>, 0))

DigitSeq == <<"0", "1", "2", "3", "4", "5", "6", "7", "8", "9">>

\* decimal text of a natural number (template literal `${num}`)
RECURSIVE numToString(_)
numToString(n) ==
  IF n < 10 THEN <<DigitSeq[n + 1]>> ELSE numToString(n \div 10) \o <<DigitSeq[(n % 10) + 1]>>

DigitValue == [c \in Digit |-> CHOOSE k \in 0..9 : DigitSeq[k + 1] = c]

RECURSIVE digitsValue(_, _)
digitsValue(s, n) == IF n = 0 THEN 0 ELSE 10 * digitsValue(s, n - 1) + DigitValue[s[n]]

\* parseInt of a non-empty digit string
parseInt(s) == With(s, LAMBDA x : digitsValue(x, Len(x)))

----------------------------------------------------------------------------
(* Background script: CourseMatchingUtils *)

\* offset of the last digit of s in [lo, hi), -1 if there is none
RECURSIVE lastDigit(_, _, _)
lastDigit(s, lo, hi) ==
  IF hi <= lo THEN -1
  ELSE IF s[hi] \in Digit THEN hi - 1
  ELSE lastDigit(s, lo, hi - 1)

RECURSIVE addSpaceFrom(_, _)
addSpaceFrom(s, p) ==
  IF p >= Len(s) THEN <<>>
  ELSE IF s[p + 1] \notin Word THEN <<s[p + 1]>> \o addSpaceFrom(s, p + 1)
  ELSE With(RunEnd(s, p, Word), LAMBDA e :
       With(lastDigit(s, p + 1, e), LAMBDA j :
         IF j = -1 THEN Slice(s, p, e) \o addSpaceFrom(s, e)
         ELSE Slice(s, p, j) \o <<" ">> \o <<s[j + 1]>> \o addSpaceFrom(s, j + 1)))

\* courseCode.replace(/(\w+)(\d+)/g, '$1 $2'): in each run of word characters
\* the greedy \w+ backs off to just before the last digit of the run
addSpaceBeforeNumber(s, p) == With(s, LAMBDA x : addSpaceFrom(x, p))

RECURSIVE removeSpaceFrom(_, _)
removeSpaceFrom(s, p) ==
  IF p >= Len(s) THEN <<>>
  ELSE IF s[p + 1] \notin Word THEN <<s[p + 1]>> \o removeSpaceFrom(s, p + 1)
  ELSE With(RunEnd(s, p, Word), LAMBDA e :
       With(RunEnd(s, e, White), LAMBDA w :
       With(RunEnd(s, w, Digit), LAMBDA d :
       With(lastDigit(s, p + 1, e), LAMBDA j :
         IF d > w THEN Slice(s, p, e) \o Slice(s, w, d) \o removeSpaceFrom(s, d)
         ELSE IF j = -1 THEN Slice(s, p, e) \o removeSpaceFrom(s, e)
         ELSE Slice(s, p, j + 1) \o removeSpaceFrom(s, j + 1)))))

\* courseCode.replace(/(\w+)\s*(\d+)/g, '$1$2'): a whole word run, white space
\* and a digit run lose the white space; failing that, \w+ backs off to just
\* before the last digit of the run and the text is unchanged
removeSpaceBeforeNumber(s, p) == With(s, LAMBDA x : removeSpaceFrom(x, p))

\* the Set of variations, without the empty string (filter(Boolean))
generateCourseCodeVariations(courseCode) ==
  With(courseCode, LAMBDA c :
    IF c = <<>> THEN {}
    ELSE { c,
           trim(ReplaceRuns(c, 0, White, <<" ">>)),
           ReplaceRuns(c, 0, White, <<"/">>),
           ReplaceRuns(c, 0, White \cup {"/"}, <<" ">>),
           ReplaceRuns(c, 0, White, <<>>),
           addSpaceBeforeNumber(c, 0),
           removeSpaceBeforeNumber(c, 0),
           toUpperCase(c),
           toLowerCase(c) } \ {<<>>})

\* A code of the shape  PREFIXES ws NUMBERS ws LETTERS  anchored at both ends,
\* as the anchored regular expressions of the matcher read it.  sh gives the
\* letter class, whether the prefix group may contain '/', the largest prefix
\* token, whether white space is required after the prefixes, the admissible
\* counts of '/'-joined numbers and the largest number of digits of a number
\* (0: no limit).
\* The character classes are disjoint, so each group is a maximal run.
parseCode(s, sh) ==
  With(RunEnd(s, 0, IF sh.slash THEN sh.letters \cup {"/"} ELSE sh.letters), LAMBDA pe :
  With(RunEnd(s, pe, White), LAMBDA we :
  With(RunEnd(s, we, Digit \cup {"/"}), LAMBDA ne :
  With(RunEnd(s, ne, White), LAMBDA w2 :
  With(split(Slice(s, 0, pe), "/"), LAMBDA ptoks :
  With(split(Slice(s, we, ne), "/"), LAMBDA ntoks :
    IF /\ pe > 0
       /\ \A i \in 1..Len(ptoks) :
            Len(ptoks[i]) >= 1 /\ (sh.tokMax = 0 \/ Len(ptoks[i]) <= sh.tokMax)
       /\ sh.ws => we > pe
       /\ ne > we
       /\ Len(ntoks) \in sh.nums
       /\ \A i \in 1..Len(ntoks) :
            Len(ntoks[i]) >= 1 /\ (sh.digMax = 0 \/ Len(ntoks[i]) <= sh.digMax)
       /\ RunEnd(s, w2, sh.letters) = Len(s)
    THEN [ok |-> TRUE, prefixes |-> Slice(s, 0, pe), numbers |-> Slice(s, we, ne),
          numberParts |-> ntoks, letters |-> Slice(s, w2, Len(s))]
    ELSE [ok |-> FALSE]))))))

\* /^([A-Z]+(?:\/[A-Z]+)*)\s+(\d+)\/(\d+)\s*([A-Z]*)$/
complexShape == [letters |-> Upper, slash |-> TRUE, tokMax |-> 0, ws |-> TRUE, nums |-> {2}, digMax |-> 0]

\* /^([A-Z]+(?:\/[A-Z]+)*)\s*(\d+(?:\/\d+)?)\s*([A-Z]*)$/
complexInputShape == [letters |-> Upper, slash |-> TRUE, tokMax |-> 0, ws |-> FALSE, nums |-> {1, 2}, digMax |-> 0]

\* /^([A-Z]+(?:\/[A-Z]+)*)\s+(\d+)\s*([A-Z]*)$/
simpleShape == [letters |-> Upper, slash |-> TRUE, tokMax |-> 0, ws |-> TRUE, nums |-> {1}, digMax |-> 0]

\* /^([A-Z]+(?:\/[A-Z]+)*)\s*(\d+)\s*([A-Z]*)$/
simpleInputShape == [letters |-> Upper, slash |-> TRUE, tokMax |-> 0, ws |-> FALSE, nums |-> {1}, digMax |-> 0]

\* /^([A-Z]+)\s*(\d+)\s*([A-Z]*)$/
singleShape == [letters |-> Upper, slash |-> FALSE, tokMax |-> 0, ws |-> FALSE, nums |-> {1}, digMax |-> 0]

\* /^([A-Za-z][a-zA-Z]{0,4}(?:\/[A-Za-z][a-zA-Z]{0,4})*)\s+(\d{1,3})\s*([a-z]+)?$/i
sectionShape == [letters |-> Letter, slash |-> TRUE, tokMax |-> 5, ws |-> TRUE, nums |-> {1}, digMax |-> 3]

checkPrefixCompatibility(coursePrefixes, inputPrefixes) ==
  \E coursePrefixList \in {split(coursePrefixes, "/")} :
  \E inputPrefixList \in {split(inputPrefixes, "/")} :
    \A i \in 1..Len(inputPrefixList) :
      \E k \in 1..Len(coursePrefixList) : coursePrefixList[k] = trim(inputPrefixList[i])

checkNumberCompatibility(inputNumbers, firstNumber, secondNumber) ==
  IF includes(inputNumbers, <<"/">>)
  THEN inputNumbers = firstNumber \o <<"/">> \o secondNumber
  ELSE inputNumbers = firstNumber \/ inputNumbers = secondNumber

\* a wrong test: one letter of the input in the course letters is enough
checkLetterCompatibilitySome(inputLetters, courseLetters) ==
  IF inputLetters = <<>> THEN TRUE
  ELSE IF courseLetters = <<>> THEN FALSE
  ELSE \E i \in 1..Len(inputLetters) : includes(courseLetters, <<inputLetters[i]>>)

checkLetterCompatibility(inputLetters, courseLetters) ==
  IF inputLetters = <<>> THEN TRUE
  ELSE IF courseLetters = <<>> THEN FALSE
  ELSE \A i \in 1..Len(inputLetters) : includes(courseLetters, <<inputLetters[i]>>)

\* the loop of isLetterSubset from letter i on
RECURSIVE subsetFrom(_, _, _)
subsetFrom(inputLetters, courseLetters, i) ==
  IF i > Len(inputLetters) THEN TRUE
  ELSE IF ~includes(courseLetters, <<inputLetters[i]>>) THEN FALSE
  ELSE subsetFrom(inputLetters, courseLetters, i + 1)

\* the same check in the earlier copy of the background script
isLetterSubset(inputLetters, courseLetters) ==
  IF inputLetters = <<>> THEN TRUE
  ELSE IF courseLetters = <<>> THEN FALSE
  ELSE subsetFrom(inputLetters, courseLetters, 1)

matchSingleCourseWithLetters(originalCode, inputVariation) ==
  \E inputMatch \in {parseCode(inputVariation, singleShape)} :
  \E courseMatch \in {parseCode(originalCode, singleShape)} :
    /\ inputMatch.ok
    /\ courseMatch.ok
    /\ inputMatch.prefixes = courseMatch.prefixes
    /\ inputMatch.numbers = courseMatch.numbers
    /\ checkLetterCompatibility(inputMatch.letters, courseMatch.letters)

\* the complex cross-listed form: PREFIXES NUM1/NUM2 LETTERS
matchComplexForm(originalCode, inputVariation) ==
  \E complexMatch \in {parseCode(originalCode, complexShape)} :
    /\ complexMatch.ok
    /\ \E inputMatch \in {parseCode(inputVariation, complexInputShape)} :
         /\ inputMatch.ok
         /\ checkPrefixCompatibility(complexMatch.prefixes, inputMatch.prefixes)
         /\ checkNumberCompatibility(inputMatch.numbers, complexMatch.numberParts[1],
                                     complexMatch.numberParts[2])
         /\ checkLetterCompatibility(inputMatch.letters, complexMatch.letters)

\* the simple cross-listed form: PREFIXES NUM LETTERS
matchSimpleForm(originalCode, inputVariation) ==
  \E simpleMatch \in {parseCode(originalCode, simpleShape)} :
    /\ simpleMatch.ok
    /\ \E inputMatch \in {parseCode(inputVariation, simpleInputShape)} :
         /\ inputMatch.ok
         /\ checkPrefixCompatibility(simpleMatch.prefixes, inputMatch.prefixes)
         /\ inputMatch.numbers = simpleMatch.numbers
         /\ checkLetterCompatibility(inputMatch.letters, simpleMatch.letters)

\* the fallback: some '/'-separated part of the course code equals the input
matchSlashPart(originalCode, inputVariation) ==
  \E parts \in {split(originalCode, "/")} :
    \E i \in 1..Len(parts) :
      \E trimmedPart \in {trim(parts[i])} :
        \/ trimmedPart = inputVariation
        \/ ReplaceRuns(trimmedPart, 0, White \cup {"/"}, <<>>)
             = ReplaceRuns(inputVariation, 0, White \cup {"/"}, <<>>)
        \/ ReplaceRuns(trimmedPart, 0, White, <<>>) = ReplaceRuns(inputVariation, 0, White, <<>>)

matchCrossListedCourse(originalCode, inputVariation) ==
  \/ matchComplexForm(originalCode, inputVariation)
  \/ matchSimpleForm(originalCode, inputVariation)
  \/ matchSlashPart(originalCode, inputVariation)

\* one pass of the loop over inputVariations
variationMatches(originalCode, variation) ==
  \E upperVariation \in {trim(toUpperCase(variation))} :
    \/ originalCode = upperVariation
    \/ ReplaceRuns(originalCode, 0, White \cup {"/"}, <<" ">>) = upperVariation
    \/ ReplaceRuns(originalCode, 0, White \cup {"/"}, <<"/">>) = upperVariation
    \/ ReplaceRuns(originalCode, 0, White \cup {"/"}, <<>>)
         = ReplaceRuns(upperVariation, 0, White \cup {"/"}, <<>>)
    \/ includes(originalCode, <<"/">>) /\ matchCrossListedCourse(originalCode, upperVariation)
    \/ matchSingleCourseWithLetters(originalCode, upperVariation)

\* inputVariations is the set of the array's elements
doesCourseMatch(course, inputVariations) ==
  /\ course.course_code_original # <<>>
  /\ \E originalCode \in {trim(toUpperCase(course.course_code_original))} :
       \E v \in inputVariations : variationMatches(originalCode, v)

null == [null |-> TRUE]

\* a wrong search: the last course that matches is found, not the first
RECURSIVE findFromLast(_, _, _)
findFromLast(variations, courses, i) ==
  IF i > Len(courses) THEN 0
  ELSE IF findFromLast(variations, courses, i + 1) # 0
       THEN findFromLast(variations, courses, i + 1)
       ELSE IF doesCourseMatch(courses[i], variations) THEN i ELSE 0

\* courses.find(course => doesCourseMatch(course, variations)) from index i on,
\* as an index (0: none)
RECURSIVE findFrom(_, _, _)
findFrom(variations, courses, i) ==
  IF i > Len(courses) THEN 0
  ELSE IF doesCourseMatch(courses[i], variations) THEN i
  ELSE findFrom(variations, courses, i + 1)

findIndex(variations, courses) ==
  With(variations, LAMBDA vs : findFrom(vs, courses, 1))

\* the section courses found for the letters of a parsed code, in letter order
RECURSIVE sectionLookups(_, _, _, _)
sectionLookups(department, number, letters, courses) ==
  IF letters = <<>> THEN <<>>
  ELSE With(findIndex(generateCourseCodeVariations(
                        department \o <<" ">> \o number \o <<" ">> \o <<Head(letters)>>),
                      courses),
            LAMBDA i : IF i = 0 THEN <<>> ELSE <<courses[i]>>)
         \o sectionLookups(department, number, Tail(letters), courses)

SeeSections == "See individual sections"

\* name.replace(/\s+TAIL$/, '') where TAIL is the longest suffix of s made of
\* characters of class C, of length in lens (0 in lens: any positive length)
stripSuffix(s, C, lens, open, close) ==
  With(s, LAMBDA x :
  With(IF close # <<>> /\ Len(x) > 0 /\ <<x[Len(x)]>> = close THEN Len(x) - 1 ELSE Len(x),
       LAMBDA e2 :
  With(RunStart(x, e2, C), LAMBDA e1 :
  With(IF open # <<>> /\ e1 > 0 /\ <<x[e1]>> = open THEN e1 - 1 ELSE e1, LAMBDA e0 :
  With(RunStart(x, e0, White), LAMBDA w :
    IF /\ (close # <<>>) => e2 = Len(x) - 1
       /\ (open # <<>>) => e0 = e1 - 1
       /\ e2 > e1
       /\ (0 \in lens \/ (e2 - e1) \in lens)
       /\ w < e0
    THEN Slice(x, 0, w) ELSE x)))))

multiSection == <<" ", "(", "M", "u", "l", "t", "i", "-", "s", "e", "c", "t", "i", "o", "n", ")">>

SectionNameLetters == {"a", "b", "c", "d", "e", "f"}

generateSyntheticCourseName(originalName, department, number) ==
  IF originalName = <<>> THEN department \o <<" ">> \o number \o multiSection
  ELSE With(trim(stripSuffix(stripSuffix(stripSuffix(originalName, {"I", "V", "X"}, {0}, <<>>, <<>>),
                                         SectionNameLetters, {1}, <<"(">>, <<")">>),
                             SectionNameLetters, {1}, <<>>, <<>>)),
            LAMBDA cleanedName :
              IF cleanedName = <<>> THEN department \o <<" ">> \o number \o multiSection
              ELSE cleanedName)

\* a wrong threshold: one section is enough
enoughSectionsOne(sectionCourses) == Len(sectionCourses) >= 1

\* a wrong threshold: three sections are asked for
enoughSectionsOffByOne(sectionCourses) == Len(sectionCourses) > 2

\* the test that decides whether a synthetic course is built
enoughSections(sectionCourses) == Len(sectionCourses) >= 2

findSectionBasedMatch(courseCode, courses) ==
  With(parseCode(courseCode, sectionShape), LAMBDA match :
    IF ~match.ok THEN null
    ELSE IF Len(match.letters) <= 1 THEN null
    ELSE With(sectionLookups(match.prefixes, match.numbers, match.letters, courses),
              LAMBDA sectionCourses :
                IF enoughSections(sectionCourses)
                THEN [course_code_original |-> courseCode,
                      name |-> generateSyntheticCourseName(sectionCourses[1].name,
                                                           match.prefixes, match.numbers),
                      units |-> SeeSections,
                      terms |-> SeeSections,
                      prerequisites |-> SeeSections,
                      instructors |-> SeeSections,
                      is_synthetic |-> TRUE,
                      section_courses |-> sectionCourses]
                ELSE null))

findCourseInCatalog(courseCode, courses) ==
  With(courseCode, LAMBDA c :
    IF c = <<>> THEN null
    ELSE With(findIndex(generateCourseCodeVariations(c), courses),
              LAMBDA i : IF i # 0 THEN courses[i] ELSE findSectionBasedMatch(c, courses)))

----------------------------------------------------------------------------
(* Content script: the regular expressions of the scanner.                 *)
(* A sub-pattern is modelled by the sequence of offsets at which it can    *)
(* end when it starts at p, in the order the backtracking matcher tries    *)
(* them (greedy: longest first); the match the engine reports is the first *)
(* element of the sequence for the whole pattern.                          *)

RECURSIVE flatMapFrom(_, _, _)
flatMapFrom(Op(_), q, i) ==
  IF i > Len(q) THEN <<>> ELSE With(q[i], Op) \o flatMapFrom(Op, q, i + 1)

\* concatenation of Op(q[1]), Op(q[2]), ...
FlatMap(Op(_), q) == With(<<>> \o q, LAMBDA x : flatMapFrom(Op, x, 1))

\* the offsets p + m, p + m - 1, ..., p + lo
descending(p, m, lo) == <<>> \o [i \in 1..(m - lo + 1) |-> p + m - (i - 1)]

\* [C]{lo,hi}, greedy; hi = -1 for no upper limit
ClassEnds(t, p, C, lo, hi) ==
  With(RunEnd(t, p, C) - p, LAMBDA run :
    IF hi # -1 /\ run > hi
    THEN (IF hi < lo THEN <<>> ELSE descending(p, hi, lo))
    ELSE (IF run < lo THEN <<>> ELSE descending(p, run, lo)))

\* (?:\/[C]{lo,hi})*, greedy
RECURSIVE SlashStarEnds(_, _, _, _, _)
SlashStarEnds(t, p, C, lo, hi) ==
  (IF p < Len(t) /\ t[p + 1] = "/"
   THEN FlatMap(LAMBDA e : SlashStarEnds(t, e, C, lo, hi), ClassEnds(t, p + 1, C, lo, hi))
   ELSE <<>>) \o <<p>>

\* a literal word, ignoring case (flag i)
WordEnds(t, p, w) ==
  IF p + Len(w) <= Len(t) /\ toLowerCase(Slice(t, p, p + Len(w))) = w THEN <<p + Len(w)>> ELSE <<>>

\* \b at offset p
wordBoundary(t, p) ==
  (p > 0 /\ t[p] \in Word) # (p < Len(t) /\ t[p + 1] \in Word)

\* [A-Za-z][a-zA-Z]{1,4}(?:\/[A-Za-z][a-zA-Z]{1,4})*  (range and shorthand patterns)
prefixGroupEnds(t, p) ==
  FlatMap(LAMBDA e : SlashStarEnds(t, e, Letter, 2, 5), ClassEnds(t, p, Letter, 2, 5))

Punctuation == {".", ",", ";", "!", "?", "(", ")", "[", "]", "{", "}"}

AndWord == <<"a", "n", "d">>

OrWord == <<"o", "r">>

\* (?:and|or)(?:\s|$) at offset e
conjunctionAt(t, e) ==
  \E ends \in {WordEnds(t, e, AndWord) \o WordEnds(t, e, OrWord)} :
    \E k \in 1..Len(ends) : ends[k] = Len(t) \/ t[ends[k] + 1] \in White

\* (?=\s*[.,;!?()\[\]{}]|$|\s*\n|\s+(?:and|or)(?:\s|$))
lookahead(t, p) ==
  \E ws0 \in {ClassEnds(t, p, White, 0, -1)} :
    \/ \E i \in 1..Len(ws0) : ws0[i] < Len(t) /\ t[ws0[i] + 1] \in Punctuation
    \/ p = Len(t)
    \/ \E i \in 1..Len(ws0) : ws0[i] < Len(t) /\ t[ws0[i] + 1] = "\n"
    \/ \E i \in 1..Len(ws0) : ws0[i] > p /\ conjunctionAt(t, ws0[i])

\* COURSE_CODE_PATTERN tried at offset s: the matches in backtracking order
COURSE_CODE_PATTERN(t, s) ==
  IF ~wordBoundary(t, s) THEN <<>>
  ELSE
    FlatMap(LAMBDA pe :
      FlatMap(LAMBDA ws :
        FlatMap(LAMBDA ne :
          FlatMap(LAMBDA w2 :
            FlatMap(LAMBDA le :
              IF lookahead(t, le)
              THEN <<[index |-> s, end |-> le, prefixes |-> Slice(t, s, pe),
                      numbers |-> Slice(t, ws, ne), letters |-> Slice(t, w2, le)]>>
              ELSE <<>>,
              ClassEnds(t, w2, Letter, 1, 3) \o <<w2>>),
            ClassEnds(t, ne, White, 0, -1)),
          FlatMap(LAMBDA e : SlashStarEnds(t, e, Digit, 1, 3), ClassEnds(t, ws, Digit, 1, 3))),
        ClassEnds(t, pe, White, 1, -1)),
      FlatMap(LAMBDA e : SlashStarEnds(t, e, Letter, 2, 5), prefixGroupEnds(t, s)))

\* rangePattern tried at offset s
rangePattern(t, s) ==
  IF ~wordBoundary(t, s) THEN <<>>
  ELSE
    FlatMap(LAMBDA pe :
      FlatMap(LAMBDA w1 :
        FlatMap(LAMBDA n1 :
          FlatMap(LAMBDA w2 :
            IF ~(w2 < Len(t) /\ t[w2 + 1] = "-") THEN <<>>
            ELSE FlatMap(LAMBDA w3 :
                   FlatMap(LAMBDA n2 :
                     IF wordBoundary(t, n2)
                     THEN <<[index |-> s, end |-> n2, prefixes |-> Slice(t, s, pe),
                             first |-> Slice(t, w1, n1), second |-> Slice(t, w3, n2)]>>
                     ELSE <<>>,
                     ClassEnds(t, w3, Digit, 1, 3)),
                   ClassEnds(t, w2 + 1, White, 0, -1)),
            ClassEnds(t, n1, White, 0, -1)),
          ClassEnds(t, w1, Digit, 1, 3)),
        ClassEnds(t, pe, White, 0, -1)),
      prefixGroupEnds(t, s))

\* (?:,\s*(?:and\s+)?|,?\s+and\s+)
separatorEnds(t, p) ==
  LET andWs(e) == FlatMap(LAMBDA a : ClassEnds(t, a, White, 1, -1), WordEnds(t, e, AndWord))
      comma == IF p < Len(t) /\ t[p + 1] = "," THEN <<p + 1>> ELSE <<>>
  IN  FlatMap(LAMBDA c : FlatMap(LAMBDA w : andWs(w) \o <<w>>, ClassEnds(t, c, White, 0, -1)), comma)
      \o FlatMap(LAMBDA c : FlatMap(LAMBDA w : andWs(w), ClassEnds(t, c, White, 1, -1)), comma \o <<p>>)

\* \d{1,3}[a-z]{0,3}\s*(?:,\s*(?:and\s+)?|,?\s+and\s+|$)
numberTokenEnds(t, p) ==
  FlatMap(LAMBDA d :
    FlatMap(LAMBDA l :
      FlatMap(LAMBDA w : separatorEnds(t, w) \o (IF w = Len(t) THEN <<w>> ELSE <<>>),
        ClassEnds(t, l, White, 0, -1)),
      ClassEnds(t, d, Letter, 0, 3)),
    ClassEnds(t, p, Digit, 1, 3))

\* (?: one number token )+, greedy
RECURSIVE numberTokensEnds(_, _)
numberTokensEnds(t, p) ==
  FlatMap(LAMBDA e : numberTokensEnds(t, e) \o <<e>>, numberTokenEnds(t, p))

\* shorthandPattern tried at offset s
shorthandPattern(t, s) ==
  IF ~wordBoundary(t, s) THEN <<>>
  ELSE
    FlatMap(LAMBDA pe :
      FlatMap(LAMBDA w1 :
        FlatMap(LAMBDA n1 :
          FlatMap(LAMBDA l1 :
            FlatMap(LAMBDA w2 :
              FlatMap(LAMBDA sp :
                FlatMap(LAMBDA e : <<[index |-> s, end |-> e, prefixes |-> Slice(t, s, pe)]>>,
                  numberTokensEnds(t, sp)),
                separatorEnds(t, w2)),
              ClassEnds(t, l1, White, 0, -1)),
            ClassEnds(t, n1, Letter, 0, 3)),
          ClassEnds(t, w1, Digit, 1, 3)),
        ClassEnds(t, pe, White, 0, -1)),
      prefixGroupEnds(t, s))

patternAt(which, t, s) ==
  CASE which = "course"    -> COURSE_CODE_PATTERN(t, s)
    [] which = "range"     -> rangePattern(t, s)
    [] which = "shorthand" -> shorthandPattern(t, s)

\* pattern.exec(text) with the search starting at lastIndex: the matches at the
\* first offset that has one (empty if no offset has one)
RECURSIVE exec(_, _, _)
exec(which, t, lastIndex) ==
  IF lastIndex > Len(t) THEN <<>>
  ELSE With(patternAt(which, t, lastIndex), LAMBDA found :
         IF found # <<>> THEN found ELSE exec(which, t, lastIndex + 1))

\* while ((match = pattern.exec(text)) !== null): the successive matches of a
\* global pattern
RECURSIVE execAll(_, _, _)
execAll(which, t, lastIndex) ==
  With(exec(which, t, lastIndex), LAMBDA found :
    IF found = <<>> THEN <<>> ELSE <<Head(found)>> \o execAll(which, t, Head(found).end))

----------------------------------------------------------------------------
(* Content script: candidate matches *)

\* properties a match object may lack read as absent (FALSE, empty, 0)
absent ==
  [prefixes |-> <<>>, numbers |-> <<>>, letters |-> <<>>,
   isRange |-> FALSE, department |-> <<>>, startNum |-> 0, endNum |-> 0,
   rangeCourses |-> <<>>, originalRangeMatch |-> <<>>,
   isShorthand |-> FALSE, isFirstInShorthand |-> FALSE, shorthandDisplayText |-> <<>>,
   originalText |-> <<>>, originalShorthandMatch |-> <<>>,
   isExpanded |-> FALSE, originalMatch |-> <<>>, displayText |-> <<>>,
   validRangeCourses |-> <<>>, currentRangeIndex |-> 0]

matchObject(fields) == fields @@ absent

\* a wrong loop: the last number of the range is left out
RECURSIVE rangeCodesExclusive(_, _, _)
rangeCodesExclusive(department, num, endNum) ==
  IF num >= endNum THEN <<>>
  ELSE <<department \o <<" ">> \o numToString(num)>>
         \o rangeCodesExclusive(department, num + 1, endNum)

\* for (let num = startNum; num <= endNum; num++) rangeCourses.push(`${department} ${num}`)
RECURSIVE rangeCodes(_, _, _)
rangeCodes(department, num, endNum) ==
  IF num > endNum THEN <<>>
  ELSE <<department \o <<" ">> \o numToString(num)>> \o rangeCodes(department, num + 1, endNum)

MaxRangeSize == 20

\* the candidate pushed for one match of rangePattern, if its numbers form a range
rangeCandidate(t, m) ==
  With(Slice(t, m.index, m.end), LAMBDA fullMatch :
  With(parseInt(m.first), LAMBDA startNum :
  With(parseInt(m.second), LAMBDA endNum :
    IF startNum >= endNum \/ (endNum - startNum) > MaxRangeSize THEN <<>>
    ELSE <<matchObject([fullMatch |-> fullMatch, index |-> m.index,
                        length |-> Len(fullMatch), department |-> m.prefixes,
                        startNum |-> startNum, endNum |-> endNum,
                        rangeCourses |-> rangeCodes(m.prefixes, startNum, endNum),
                        isRange |-> TRUE, originalRangeMatch |-> fullMatch])>>)))

detectRangeCourses(t) ==
  FlatMap(LAMBDA m : rangeCandidate(t, m), execAll("range", t, 0))

\* offset of the first digit of s at or after p, -1 if there is none
RECURSIVE firstDigit(_, _)
firstDigit(s, p) ==
  IF p >= Len(s) THEN -1 ELSE IF s[p + 1] \in Digit THEN p ELSE firstDigit(s, p + 1)

\* numberPattern /\d{1,3}([a-z]{0,3})/g run over the whole shorthand match
RECURSIVE allNumbers(_, _)
allNumbers(fullMatch, lastIndex) ==
  With(firstDigit(fullMatch, lastIndex), LAMBDA d0 :
    IF d0 = -1 THEN <<>>
    ELSE With(Head(ClassEnds(fullMatch, d0, Digit, 1, 3)), LAMBDA de :
         With(Head(ClassEnds(fullMatch, de, Lower, 0, 3)), LAMBDA le :
           <<[text |-> Slice(fullMatch, d0, le), indexInMatch |-> d0]>>
             \o allNumbers(fullMatch, le))))

\* a wrong candidate: every number is highlighted from the start of the prefix
shorthandCandidateFromPrefix(t, m, fullMatch, num, i) ==
  With(num.text, LAMBDA numberText :
  With(RunEnd(numberText, 0, Digit), LAMBDA dl :
  With(m.prefixes \o <<" ">> \o numberText, LAMBDA courseCode :
    matchObject([fullMatch |-> trim(courseCode), index |-> m.index,
                 length |-> num.indexInMatch + Len(numberText), prefixes |-> m.prefixes,
                 numbers |-> Slice(numberText, 0, dl),
                 letters |-> Slice(numberText, dl, Len(numberText)),
                 isShorthand |-> TRUE, isFirstInShorthand |-> (i = 1),
                 shorthandDisplayText |-> IF i = 1 THEN courseCode ELSE numberText,
                 originalText |-> Slice(t, m.index, m.index + num.indexInMatch + Len(numberText)),
                 originalShorthandMatch |-> fullMatch]))))

\* the candidate pushed for the i-th number of a shorthand match
shorthandCandidate(t, m, fullMatch, num, i) ==
  With(num.text, LAMBDA numberText :
  With(RunEnd(numberText, 0, Digit), LAMBDA dl :
  With(m.prefixes \o <<" ">> \o numberText, LAMBDA courseCode :
  With(IF i = 1 THEN m.index ELSE m.index + num.indexInMatch, LAMBDA highlightStart :
  With(IF i = 1 THEN num.indexInMatch + Len(numberText) ELSE Len(numberText),
       LAMBDA highlightLength :
    matchObject([fullMatch |-> trim(courseCode), index |-> highlightStart,
                 length |-> highlightLength, prefixes |-> m.prefixes,
                 numbers |-> Slice(numberText, 0, dl),
                 letters |-> Slice(numberText, dl, Len(numberText)),
                 isShorthand |-> TRUE, isFirstInShorthand |-> (i = 1),
                 shorthandDisplayText |-> IF i = 1 THEN courseCode ELSE numberText,
                 originalText |-> Slice(t, highlightStart, highlightStart + highlightLength),
                 originalShorthandMatch |-> fullMatch]))))))

\* the candidates pushed for one match of shorthandPattern
shorthandCandidates(t, m) ==
  With(Slice(t, m.index, m.end), LAMBDA fullMatch :
  With(allNumbers(fullMatch, 0), LAMBDA nums :
    FlatMap(LAMBDA i : <<shorthandCandidate(t, m, fullMatch, nums[i], i)>>,
            [i \in 1..Len(nums) |-> i])))

detectShorthandCourses(t) ==
  FlatMap(LAMBDA m : shorthandCandidates(t, m), execAll("shorthand", t, 0))

\* the FIND_COURSE round trip to the background script
findCourseMatch(courseText, courses) ==
  With(courseText, LAMBDA c :
    IF c = <<>> THEN null
    ELSE IF trim(c) = <<>> THEN null
    ELSE findCourseInCatalog(trim(c), courses))

\* the regular expression `\\b${prefixes}\\s*${tail}` tried at offset s of fullMatch:
\* the lengths of its matches, in backtracking order
firstNumberAt(fullMatch, prefixes, tail, s) ==
  IF wordBoundary(fullMatch, s) /\ StartsWithAt(fullMatch, s, prefixes)
  THEN FlatMap(LAMBDA w : IF StartsWithAt(fullMatch, w, tail) THEN <<w + Len(tail) - s>> ELSE <<>>,
               ClassEnds(fullMatch, s + Len(prefixes), White, 0, -1))
  ELSE <<>>

RECURSIVE firstNumberFrom(_, _, _, _)
firstNumberFrom(fullMatch, prefixes, tail, s) ==
  IF s > Len(fullMatch) THEN 0
  ELSE With(firstNumberAt(fullMatch, prefixes, tail, s), LAMBDA found :
         IF found # <<>> THEN Head(found)
         ELSE firstNumberFrom(fullMatch, prefixes, tail, s + 1))

\* fullMatch.match(new RegExp(`\\b${prefixes}\\s*${numberParts[0]}${letters}`)):
\* the length of the first match, 0 if there is none
firstNumberMatch(fullMatch, prefixes, tail) ==
  With(tail, LAMBDA x : firstNumberFrom(fullMatch, prefixes, x, 0))

\* a wrong decision: the individual courses are looked at before the full compound code
expandsIndividualFirst(fullCourseMatch, allIndividualExist, found) ==
  allIndividualExist /\ found > 1

\* a wrong decision: the test for all individual courses is dropped
expandsSomeIndividual(fullCourseMatch, allIndividualExist, found) ==
  fullCourseMatch = null /\ found > 1

\* the decision of expandCompoundCourseCode: the full compound code is not in the
\* catalog, and every individual course is, and there are several
expands(fullCourseMatch, allIndividualExist, found) ==
  fullCourseMatch = null /\ allIndividualExist /\ found > 1

\* the single candidate for the whole match
wholeMatch(m, fullMatch) ==
  <<matchObject([fullMatch |-> trim(fullMatch), index |-> m.index,
                 length |-> Len(fullMatch), prefixes |-> m.prefixes,
                 numbers |-> m.numbers, letters |-> m.letters])>>

\* for each number part, whether its individual course is in the catalog
RECURSIVE individualMatches(_, _, _, _)
individualMatches(m, numberParts, courses, i) ==
  IF i > Len(numberParts) THEN <<>>
  ELSE <<findCourseMatch(trim(m.prefixes \o <<" ">> \o numberParts[i] \o m.letters), courses)
           # null>>
         \o individualMatches(m, numberParts, courses, i + 1)

\* the first part: prefixes and first number, e.g. "APh/EE 23"
firstPart(m, fullMatch, numberParts) ==
  With(numberParts[1] \o m.letters, LAMBDA firstTail :
  With(firstNumberMatch(fullMatch, m.prefixes, firstTail), LAMBDA firstLen :
    matchObject([fullMatch |-> trim(m.prefixes \o <<" ">> \o numberParts[1] \o m.letters),
                 index |-> m.index,
                 length |-> IF firstLen # 0 THEN firstLen
                            ELSE indexOf(fullMatch, firstTail, 0) + Len(firstTail),
                 prefixes |-> m.prefixes, numbers |-> numberParts[1],
                 letters |-> m.letters, isExpanded |-> TRUE,
                 originalMatch |-> fullMatch])))

\* the i-th part (i >= 2), e.g. "/24" standing for "APh/EE 24"
laterPart(m, fullMatch, numberParts, i) ==
  With(<<"/">> \o numberParts[i], LAMBDA searchPattern :
  With(indexOf(fullMatch, searchPattern,
               indexOf(fullMatch, <<"/">> \o numberParts[i - 1], 0)), LAMBDA startPos :
    IF startPos = -1 THEN <<>>
    ELSE <<matchObject([fullMatch |-> trim(m.prefixes \o <<" ">> \o numberParts[i] \o m.letters),
                        index |-> m.index + startPos,
                        length |-> Len(searchPattern) + Len(m.letters),
                        prefixes |-> m.prefixes, numbers |-> numberParts[i],
                        letters |-> m.letters, isExpanded |-> TRUE,
                        originalMatch |-> fullMatch,
                        displayText |-> searchPattern \o m.letters])>>))

expandCompoundCourseCode(m, t, courses) ==
  With(Slice(t, m.index, m.end), LAMBDA fullMatch :
  With(split(m.numbers, "/"), LAMBDA numberParts :
    IF Len(numberParts) <= 1 THEN wholeMatch(m, fullMatch)
    ELSE With(findCourseMatch(trim(m.prefixes \o <<" ">> \o m.numbers \o m.letters), courses),
              LAMBDA fullCourseMatch :
         With(individualMatches(m, numberParts, courses, 1), LAMBDA individual :
           IF expands(fullCourseMatch,
                      \A i \in 1..Len(individual) : individual[i],
                      Cardinality({i \in 1..Len(individual) : individual[i]}))
           THEN <<firstPart(m, fullMatch, numberParts)>>
                  \o FlatMap(LAMBDA i : laterPart(m, fullMatch, numberParts, i),
                             [i \in 1..(Len(numberParts) - 1) |-> i + 1])
           ELSE wholeMatch(m, fullMatch)))))

\* the candidates pushed for one match of COURSE_CODE_PATTERN
standardCandidates(m, t, courses, shorthandMatches) ==
  IF \E i \in 1..Len(shorthandMatches) :
       /\ m.index < shorthandMatches[i].index + shorthandMatches[i].length
       /\ m.end > shorthandMatches[i].index
  THEN <<>>
  ELSE IF includes(m.numbers, <<"/">>) THEN expandCompoundCourseCode(m, t, courses)
  ELSE With(Slice(t, m.index, m.end), LAMBDA fullMatch :
         <<matchObject([fullMatch |-> trim(fullMatch), index |-> m.index,
                        length |-> Len(fullMatch), prefixes |-> m.prefixes,
                        numbers |-> m.numbers, letters |-> m.letters])>>)

detectCourseInText(t, courses) ==
  With(detectRangeCourses(t), LAMBDA rangeMatches :
  With(detectShorthandCourses(t), LAMBDA shorthandMatches :
    rangeMatches \o shorthandMatches
      \o FlatMap(LAMBDA m : standardCandidates(m, t, courses, shorthandMatches),
                 execAll("course", t, 0))))

\* Math.abs
abs(n) == IF n < 0 THEN -n ELSE n

\* the synchronous detector: its expandCompoundCourseCode decides on the numbers alone;
\* with several prefixes and several numbers the first two numbers must be within 5
expandCompoundCourseCodeSync(m, t) ==
  With(Slice(t, m.index, m.end), LAMBDA fullMatch :
  With(split(m.numbers, "/"), LAMBDA numberParts :
  With(split(m.prefixes, "/"), LAMBDA prefixParts :
    IF Len(numberParts) <= 1 THEN wholeMatch(m, fullMatch)
    ELSE IF /\ Len(prefixParts) > 1
            /\ Len(numberParts) > 1
            /\ abs(parseInt(numberParts[2]) - parseInt(numberParts[1])) > 5
    THEN wholeMatch(m, fullMatch)
    ELSE <<firstPart(m, fullMatch, numberParts)>>
           \o FlatMap(LAMBDA i : laterPart(m, fullMatch, numberParts, i),
                      [i \in 1..(Len(numberParts) - 1) |-> i + 1]))))

\* the candidates the synchronous detector pushes for one match of COURSE_CODE_PATTERN
standardCandidatesSync(m, t, allSpecialMatches) ==
  IF \E i \in 1..Len(allSpecialMatches) :
       /\ m.index < allSpecialMatches[i].index + allSpecialMatches[i].length
       /\ m.end > allSpecialMatches[i].index
  THEN <<>>
  ELSE IF includes(m.numbers, <<"/">>) /\ includes(m.prefixes, <<"/">>)
  THEN expandCompoundCourseCodeSync(m, t)
  ELSE With(Slice(t, m.index, m.end), LAMBDA fullMatch : wholeMatch(m, fullMatch))

\* detectCourseInText of the synchronous detector on a text without a comma: the
\* shorthand pattern of this variant needs a comma between two numbers and finds nothing
detectCourseInTextSync(t) ==
  With(detectRangeCourses(t), LAMBDA rangeMatches :
    rangeMatches
      \o FlatMap(LAMBDA m : standardCandidatesSync(m, t, rangeMatches),
                 execAll("course", t, 0)))

----------------------------------------------------------------------------
(* Content script: validation and highlighting *)

\* the section courses of a multi-letter code, looked up letter by letter
RECURSIVE sectionCourseList(_, _, _, _, _)
sectionCourseList(department, number, letters, courses, i) ==
  IF i > Len(letters) THEN <<>>
  ELSE With(department \o <<" ">> \o number \o <<" ">> \o <<letters[i]>>, LAMBDA sectionCode :
       With(findCourseMatch(sectionCode, courses), LAMBDA course :
         (IF course # null
          THEN <<[code |-> sectionCode, data |-> course, letter |-> letters[i]]>>
          ELSE <<>>)
           \o sectionCourseList(department, number, letters, courses, i + 1)))

findSectionCourses(courseCode, courses) ==
  With(parseCode(courseCode, sectionShape), LAMBDA match :
    IF ~match.ok THEN <<>>
    ELSE IF Len(match.letters) <= 1 THEN <<>>
    ELSE sectionCourseList(match.prefixes, match.numbers, match.letters, courses, 1))

multiSectionTag == <<" ", "(", "m", "u", "l", "t", "i", "-", "s", "e", "c", "t", "i", "o", "n", ")">>

\* the entry of validRangeCourses for one generated code of a range match
validRangeCourse(courseCode, courses) ==
  With(findCourseMatch(courseCode, courses), LAMBDA course :
    IF course # null
    THEN <<[courseCode |-> courseCode, course |-> course,
            hasSections |-> FALSE, sectionCourses |-> <<>>]>>
    ELSE With(findSectionCourses(courseCode, courses), LAMBDA sectionCourses :
           IF Len(sectionCourses) > 0
           THEN <<[courseCode |-> courseCode \o multiSectionTag,
                   course |-> sectionCourses[1].data,
                   hasSections |-> TRUE, sectionCourses |-> sectionCourses]>>
           ELSE <<>>))

\* a wrong loop: only the first generated code is looked up
validRangeCoursesOfFirst(rangeCourses, courses) ==
  validRangeCourse(rangeCourses[1], courses)

\* the entries of validRangeCourses for the generated codes of a range match
validRangeCoursesOf(rangeCourses, courses) ==
  FlatMap(LAMBDA courseCode : validRangeCourse(courseCode, courses), rangeCourses)

\* one turn of the loop over allMatches that fills validMatches
validateOne(match, courses) ==
  IF match.isRange
  THEN With(validRangeCoursesOf(match.rangeCourses, courses), LAMBDA validRangeCourses :
         IF Len(validRangeCourses) > 0
         THEN <<[match |-> [match EXCEPT !.validRangeCourses = validRangeCourses,
                                         !.currentRangeIndex = 0],
                 course |-> validRangeCourses[1].course, isRangeMatch |-> TRUE]>>
         ELSE <<>>)
  ELSE With(findCourseMatch(match.fullMatch, courses), LAMBDA course :
         IF course # null
         THEN <<[match |-> match, course |-> course, isRangeMatch |-> FALSE]>>
         ELSE <<>>)

\* the loop over allMatches that fills validMatches
validate(matches, courses) ==
  FlatMap(LAMBDA match : validateOne(match, courses), matches)

\* the place of x in the sorted sequence rest: after every entry that does not
\* come later
insertByIndex(rest, x) ==
  With(Cardinality({i \in 1..Len(rest) : rest[i].match.index <= x.match.index}), LAMBDA k :
    SubSeq(rest, 1, k) \o <<x>> \o SubSeq(rest, k + 1, Len(rest)))

RECURSIVE sortFrom(_, _, _)
sortFrom(q, sorted, i) ==
  IF i > Len(q) THEN sorted
  ELSE With(insertByIndex(sorted, q[i]), LAMBDA next : sortFrom(q, next, i + 1))

\* validMatches.sort((a, b) => a.match.index - b.match.index): a stable sort
sortByIndex(q) == With(<<>> \o q, LAMBDA x : sortFrom(x, <<>>, 1))

textNode(content) == [type |-> "text", textContent |-> content]

\* the highlighted span created for one validated match
highlightSpan(t, match, course) ==
  LET under == Slice(t, match.index, match.index + match.length)
      displayText  == IF match.isRange THEN match.originalRangeMatch
                      ELSE IF match.isShorthand THEN match.shorthandDisplayText
                      ELSE IF match.displayText # <<>> THEN match.displayText
                      ELSE under
      originalText == IF match.isRange THEN under
                      ELSE IF match.isShorthand
                      THEN (IF match.originalText # <<>> THEN match.originalText ELSE under)
                      ELSE under
  IN  [type |-> "span", textContent |-> displayText, courseCode |-> match.fullMatch,
       courseData |-> course, originalText |-> originalText,
       isRange |-> match.isRange,
       rangeCourses |-> IF match.isRange THEN match.validRangeCourses ELSE <<>>,
       rangeIndex |-> 0]

\* validMatches.forEach(...) building the fragment, then the remaining text
RECURSIVE buildFragment(_, _, _, _)
buildFragment(t, valid, i, lastIndex) ==
  IF i > Len(valid)
  THEN IF lastIndex < Len(t) THEN <<textNode(Slice(t, lastIndex, Len(t)))>> ELSE <<>>
  ELSE With(valid[i].match, LAMBDA match :
       With(IF match.index + match.length > lastIndex
            THEN match.index + match.length ELSE lastIndex, LAMBDA newLastIndex :
         (IF match.index > lastIndex
          THEN <<textNode(Slice(t, lastIndex, match.index))>> ELSE <<>>)
           \o <<highlightSpan(t, match, valid[i].course)>>
           \o buildFragment(t, valid, i + 1, newLastIndex)))

\* the concatenation of the text of a list of nodes
RECURSIVE textOf(_)
textOf(ns) == IF ns = <<>> THEN <<>> ELSE Head(ns).textContent \o textOf(Tail(ns))

\* parent.normalize() on children that are all text nodes
normalize(ns) ==
  With(textOf(ns), LAMBDA content : IF content = <<>> THEN <<>> ELSE <<textNode(content)>>)

\* removeAllHighlights on the children of one parent: every highlight is replaced
\* by a text node of its data-original-text, or of its text when that is empty
restoreHighlights(ns) ==
  normalize([i \in 1..Len(ns) |->
               IF ns[i].type = "span"
               THEN textNode(IF ns[i].originalText # <<>> THEN ns[i].originalText
                             ELSE ns[i].textContent)
               ELSE ns[i]])

----------------------------------------------------------------------------
(* Background script: the catalog cache and the message handlers *)

\* the session before any message: nothing cached, nothing fetched
NoSession == [cache |-> "empty", fetches |-> 0, requests |-> <<>>]

\* a wrong cache: the stored catalog is never found
getNothing(cache) == null

\* cacheManager.get('catalog_data'): the cached catalog, null without an
\* entry that has not expired
get(cache) == IF cache = "fresh" THEN [data |-> "catalog"] ELSE null

\* loadCourseData up to its first await, for the request r: a cache hit
\* answers at once, a miss calls fetch
loadCourseData(s, r, message) ==
  IF get(s.cache) # null
  THEN [s EXCEPT !.requests[r] = [type |-> message.type, at |-> "answered",
                                  hit |-> TRUE, success |-> TRUE]]
  ELSE [s EXCEPT !.fetches = @ + 1,
                 !.requests[r] = [type |-> message.type, at |-> "fetching",
                                  hit |-> FALSE, success |-> FALSE]]

\* a FIND_COURSE message without a course code is answered with an error
\* before the catalog is asked for
rejected(s, r, message) ==
  [s EXCEPT !.requests[r] = [type |-> message.type, at |-> "answered",
                             hit |-> FALSE, success |-> FALSE]]

\* sendResponse(response) for the request r
sendResponse(s, r, response) ==
  [s EXCEPT !.requests[r].at = "answered",
            !.requests[r].responses = @ + 1,
            !.requests[r].success = response.success,
            !.requests[r].error = response.error]

\* 'await loadCourseData()' of a handler, up to the first await: a cached
\* catalog is returned to the handler, which resumes later; a miss calls fetch
awaitCourseData(s, r) ==
  IF get(s.cache) # null
  THEN [s EXCEPT !.requests[r].at = "resuming"]
  ELSE [s EXCEPT !.fetches = @ + 1, !.requests[r].at = "fetching"]

handleGetCatalogData(s, r) == awaitCourseData(s, r)

\* a wrong handler: the error thrown for an invalid course code is not caught
handleFindCourseUncaught(s, r, message) ==
  IF ~message.hasCourseCode
  THEN [s EXCEPT !.requests[r].at = "thrown"]
  ELSE awaitCourseData(s, r)

\* handleFindCourse up to its first await: an invalid course code throws inside
\* the try block and the catch block answers
handleFindCourseMessage(s, r, message) ==
  IF ~message.hasCourseCode
  THEN sendResponse(s, r, [success |-> FALSE, error |-> "Invalid course code provided"])
  ELSE awaitCourseData(s, r)

handleGetStats(s, r) == sendResponse(s, r, [success |-> TRUE, error |-> ""])

handleClearCache(s, r) ==
  sendResponse([s EXCEPT !.cache = "empty"], r, [success |-> TRUE, error |-> ""])

\* the onMessage listener for the message delivered as request r
onMessage(s, r, message) ==
  With([s EXCEPT !.requests[r] = [type |-> message.type, wellFormed |-> message.wellFormed,
                                  at |-> "delivered", responses |-> 0,
                                  success |-> FALSE, error |-> ""]], LAMBDA s1 :
    IF ~message.wellFormed
    THEN sendResponse(s1, r, [success |-> FALSE, error |-> "Invalid message format"])
    ELSE CASE message.type = "GET_CATALOG_DATA" -> handleGetCatalogData(s1, r)
           [] message.type = "FIND_COURSE" -> handleFindCourseMessage(s1, r, message)
           [] message.type = "GET_STATS" -> handleGetStats(s1, r)
           [] message.type = "CLEAR_CACHE" -> handleClearCache(s1, r)
           [] OTHER -> sendResponse(s1, r, [success |-> FALSE, error |-> "Unknown message type"]))

\* CacheManager: the Map of entries, the Map of timers and the clock
\* (Date.now()); a timer is the time at which it is due
CacheKeys == {"catalog_data", "settings"}

none == [none |-> TRUE]

\* a wrong delete: the timer of the key is left pending
cacheDeleteKeepsTimer(s, key) ==
  [s EXCEPT !.cache[key] = none]

\* CacheManager.delete(key)
cacheDelete(s, key) ==
  [s EXCEPT !.cache[key] = none, !.timers[key] = none]

\* CacheManager.set(key, value)
cacheSet(s, key, value) ==
  [s EXCEPT !.cache[key] = [value |-> value, timestamp |-> s.now],
            !.timers[key] = [due |-> s.now + s.ttl]]

\* CacheManager.get(key): the manager after the call and the value returned
cacheGet(s, key) ==
  IF s.cache[key] = none THEN [manager |-> s, value |-> null]
  ELSE IF s.now - s.cache[key].timestamp > s.ttl
       THEN [manager |-> cacheDelete(s, key), value |-> null]
       ELSE [manager |-> s, value |-> s.cache[key].value]

\* CacheManager.clear()
cacheClear(s) ==
  [s EXCEPT !.cache = [k \in CacheKeys |-> none], !.timers = [k \in CacheKeys |-> none]]

\* CacheManager.cleanup()
cleanup(s) ==
  [s EXCEPT !.cache = [k \in CacheKeys |->
                         IF s.cache[k] # none /\ s.now - s.cache[k].timestamp > s.ttl
                         THEN none ELSE s.cache[k]],
            !.timers = [k \in CacheKeys |->
                          IF s.cache[k] # none /\ s.now - s.cache[k].timestamp > s.ttl
                          THEN none ELSE s.timers[k]]]

\* DEFAULT_SETTINGS of the background script
DEFAULT_SETTINGS ==
  [extensionEnabled |-> TRUE, showName |-> TRUE, showUnits |-> TRUE, showTerms |-> TRUE,
   showPrerequisites |-> TRUE, showDescription |-> FALSE, showInstructors |-> FALSE]

\* chrome.storage.sync.get(defaults): the keys of defaults, each with its stored
\* value or, when nothing is stored under it, with its value in defaults
storageGet(storage, defaults) ==
  [k \in DOMAIN defaults |-> IF k \in DOMAIN storage THEN storage[k] ELSE defaults[k]]

\* chrome.storage.sync.set(items)
storageSet(storage, items) ==
  [k \in DOMAIN storage \cup DOMAIN items |-> IF k \in DOMAIN items THEN items[k] ELSE storage[k]]

\* initializeSettings when the storage calls succeed
initializeSettings(storage) ==
  With(storageGet(storage, DEFAULT_SETTINGS), LAMBDA existingSettings :
    IF Cardinality(DOMAIN existingSettings) = 0
    THEN storageSet(storage, DEFAULT_SETTINGS)
    ELSE storage)

----------------------------------------------------------------------------
(* The page the tooltip works on: its highlights and their data *)

\* the catalog behind the page
TooltipCatalog ==
  << [course_code_original |-> <<"C", "S", " ", "1">>, name |-> <<"P">>],
     [course_code_original |-> <<"E", "C", " ", "1", "2", "1", " ", "a">>, name |-> <<"A">>],
     [course_code_original |-> <<"E", "C", " ", "1", "2", "1", " ", "b">>, name |-> <<"B">>],
     [course_code_original |-> <<"E", "C", " ", "1", "2", "1", " ", "c">>, name |-> <<"C">>],
     [course_code_original |-> <<"E", "C", " ", "1", "2", "2">>, name |-> <<"E">>] >>

\* how many times the text of one place of the page is turned into a highlight
MaxGenerations == 2

\* the places of the page that hold a course code: one course, a code with
\* three sections, a range of two courses
Places == {"CS 1", "EC 121 abc", "EC 121-122"}

\* the highlight elements made for these places (a rebuilt highlight is a new
\* element), the page outside every highlight, and the inside of the tooltip
Targets ==
  { [id |-> p, highlight |-> TRUE, inTooltip |-> FALSE, isRange |-> (p = "EC 121-122"),
     generation |-> g] : p \in Places, g \in 1..MaxGenerations }
    \cup { [id |-> "body", highlight |-> FALSE, inTooltip |-> FALSE, isRange |-> FALSE,
            generation |-> 0],
           [id |-> "tooltip", highlight |-> FALSE, inTooltip |-> TRUE, isRange |-> FALSE,
            generation |-> 0] }

Highlights == {t \in Targets : t.highlight}

Keys == {"Escape", "Enter", "a"}

\* data-course-code of the highlights
PageCodes ==
  [h \in Highlights |->
     IF h.id = "CS 1" THEN <<"C", "S", " ", "1">>
     ELSE IF h.id = "EC 121 abc" THEN <<"E", "C", " ", "1", "2", "1", " ", "a", "b", "c">>
     ELSE <<"E", "C", " ", "1", "2", "1">>]

\* what findSectionCourses answers for the code of each highlight
PageSections == [h \in Highlights |-> findSectionCourses(PageCodes[h], TooltipCatalog)]

\* data-range-courses of the highlights
PageRangeCourses ==
  [h \in Highlights |->
     IF h.isRange THEN validRangeCoursesOf(rangeCodes(<<"E", "C">>, 121, 122), TooltipCatalog)
     ELSE <<>>]

\* data-course-data of the new highlights: the course of the code, for a
\* range the course of its first resolved code
PageCourses ==
  [h \in Highlights |->
     IF h.isRange THEN PageRangeCourses[h][1].course
     ELSE findCourseMatch(PageCodes[h], TooltipCatalog)]

----------------------------------------------------------------------------
(* Content script: pinning, unpinning and hovering the tooltip *)

\* the tooltip state after construction: nothing pinned, tooltip hidden; the
\* fields that belong to the highlights of a page are filled by the page
NoTooltip ==
  [isPinned |-> FALSE, pinnedElement |-> null, visible |-> FALSE, pinned |-> FALSE,
   shown |-> null, hoverTimeout |-> null, hideTimeout |-> null]

\* document.body.contains(element)
contains(s, element) == element \in s.attached

clearTimeouts(s) == [s EXCEPT !.hoverTimeout = null, !.hideTimeout = null]

\* classList.remove('visible'), classList.remove('pinned')
hideTooltip(s) == [s EXCEPT !.visible = FALSE, !.pinned = FALSE]

\* nothing is shown while the extension is disabled; every highlight carries
\* its course data, and the tooltip shows the element's data-course-data
showTooltip(s, element, isPinned) ==
  IF ~s.extensionEnabled THEN s
  ELSE [s EXCEPT !.visible = TRUE, !.pinned = isPinned, !.shown = s.courseData[element]]

pinTooltip(s, element) ==
  IF ~contains(s, element) THEN s
  ELSE showTooltip([clearTimeouts(s) EXCEPT !.pinnedElement = element, !.isPinned = TRUE],
                   element, TRUE)

showSectionTooltip(s, element, sectionData) ==
  IF ~contains(s, element) THEN s
  ELSE showTooltip([clearTimeouts(s) EXCEPT !.pinnedElement = element, !.isPinned = TRUE,
                                            !.courseData[element] = sectionData.data],
                   element, TRUE)

showRangeTooltip(s, element, rangeData) ==
  IF ~contains(s, element) THEN s
  ELSE showTooltip([clearTimeouts(s) EXCEPT !.pinnedElement = element, !.isPinned = TRUE,
                                            !.courseData[element] = rangeData.course],
                   element, TRUE)

\* a wrong unpin: the flag is cleared and the element is kept
unpinTooltipKeepsElement(s) ==
  hideTooltip([s EXCEPT !.isPinned = FALSE])

\* a wrong unpin: the tooltip is left on the page
unpinTooltipShown(s) ==
  [s EXCEPT !.pinnedElement = null, !.isPinned = FALSE]

\* the cycle state of the pinned element is dropped; a range element is put
\* back on its first course, a regular element asks for its course again
\* (the answer comes later); then the pin is released and the tooltip hidden
unpinTooltip(s) ==
  hideTooltip(
    [(IF s.pinnedElement = null THEN s
      ELSE IF s.pinnedElement.isRange
      THEN [s EXCEPT !.sectionCycleState[s.pinnedElement] = -1,
                     !.rangeIndex[s.pinnedElement] = 0,
                     !.courseData[s.pinnedElement] =
                        IF Len(PageRangeCourses[s.pinnedElement]) > 0
                        THEN PageRangeCourses[s.pinnedElement][1].course ELSE @]
      ELSE [s EXCEPT !.sectionCycleState[s.pinnedElement] = -1,
                     !.restoring = @ \cup {s.pinnedElement}])
     EXCEPT !.pinnedElement = null, !.isPinned = FALSE])

\* a wrong cycle: the last section is never shown
clickHighlightEarly(s, target) ==
  IF s.pinnedElement = target
  THEN IF s.sectionCycleState[target] = -1
       THEN [s EXCEPT !.awaiting = @ \cup {target}]
       ELSE IF s.sectionCycleState[target] + 2 >= Len(PageSections[target])
       THEN unpinTooltip([s EXCEPT !.sectionCycleState[target] = -1])
       ELSE showSectionTooltip([s EXCEPT !.sectionCycleState[target] = @ + 1], target,
                               PageSections[target][s.sectionCycleState[target] + 2])
  ELSE pinTooltip([s EXCEPT !.sectionCycleState = [h \in DOMAIN @ |-> -1]], target)

\* the click listener of a regular highlight, up to its await
clickHighlight(s, target) ==
  IF s.pinnedElement = target
  THEN IF s.sectionCycleState[target] = -1
       THEN [s EXCEPT !.awaiting = @ \cup {target}]
       ELSE IF s.sectionCycleState[target] + 1 >= Len(PageSections[target])
       THEN unpinTooltip([s EXCEPT !.sectionCycleState[target] = -1])
       ELSE showSectionTooltip([s EXCEPT !.sectionCycleState[target] = @ + 1], target,
                               PageSections[target][s.sectionCycleState[target] + 2])
  ELSE pinTooltip([s EXCEPT !.sectionCycleState = [h \in DOMAIN @ |-> -1]], target)

\* the click listener once findSectionCourses has answered
sectionsFound(s, target) ==
  IF Len(PageSections[target]) > 1
  THEN showSectionTooltip([s EXCEPT !.sectionCycleState[target] = 0], target,
                          PageSections[target][1])
  ELSE unpinTooltip(s)

\* what the range listener shows for one entry of data-range-courses
rangeData(course) ==
  IF course.hasSections
  THEN [courseCode |-> course.sectionCourses[1].code, course |-> course.sectionCourses[1].data]
  ELSE [courseCode |-> course.courseCode, course |-> course.course]

\* a wrong cycle: the last course of the range is never shown
clickRangeEarly(s, target) ==
  IF target \in s.recent THEN s
  ELSE IF s.pinnedElement = target
  THEN IF s.rangeIndex[target] + 2 >= Len(PageRangeCourses[target])
       THEN unpinTooltip([s EXCEPT !.recent = @ \cup {target}, !.rangeIndex[target] = 0])
       ELSE showRangeTooltip([s EXCEPT !.recent = @ \cup {target},
                                       !.rangeIndex[target] = @ + 1], target,
                             rangeData(PageRangeCourses[target][s.rangeIndex[target] + 2]))
  ELSE showRangeTooltip(pinTooltip([s EXCEPT !.recent = @ \cup {target},
                                             !.rangeIndex[target] = 0], target), target,
                        rangeData(PageRangeCourses[target][1]))

\* the click listener of a range highlight; a click less than 150 ms after the
\* last one it accepted is dropped
clickRange(s, target) ==
  IF target \in s.recent THEN s
  ELSE IF s.pinnedElement = target
  THEN IF s.rangeIndex[target] + 1 >= Len(PageRangeCourses[target])
       THEN unpinTooltip([s EXCEPT !.recent = @ \cup {target}, !.rangeIndex[target] = 0])
       ELSE showRangeTooltip([s EXCEPT !.recent = @ \cup {target},
                                       !.rangeIndex[target] = @ + 1], target,
                             rangeData(PageRangeCourses[target][s.rangeIndex[target] + 2]))
  ELSE showRangeTooltip(pinTooltip([s EXCEPT !.recent = @ \cup {target},
                                             !.rangeIndex[target] = 0], target), target,
                        rangeData(PageRangeCourses[target][1]))

\* element.click(): the listener the highlight was given
clickListener(s, target) ==
  IF target.isRange THEN clickRange(s, target) ELSE clickHighlight(s, target)

handleGlobalClick(s, target) ==
  IF target.highlight THEN s
  ELSE IF target.inTooltip /\ s.isPinned THEN s
  ELSE IF s.isPinned THEN unpinTooltip(s)
  ELSE s

handleGlobalKeyDown(s, key, target) ==
  IF key = "Escape" /\ s.isPinned THEN unpinTooltip(s)
  ELSE IF key \in {" ", "Enter"} /\ target.highlight THEN clickListener(s, target)
  ELSE s

\* every highlight in the document is replaced by a text node of its text
removeAllHighlights(s) ==
  [s EXCEPT !.attached = {}, !.textNodes = @ \cup {h.id : h \in s.attached}]

\* SETTINGS_UPDATED: enabling starts processExistingContent, which removes the
\* highlights before it walks the text nodes; disabling hides the tooltip and
\* removes the highlights
handleSettingsUpdate(s, extensionEnabled) ==
  IF extensionEnabled
  THEN removeAllHighlights([s EXCEPT !.extensionEnabled = TRUE])
  ELSE removeAllHighlights(hideTooltip([s EXCEPT !.extensionEnabled = FALSE]))

handleMouseLeave(s, element) ==
  IF s.isPinned /\ s.pinnedElement = element THEN s
  ELSE IF s.isPinned /\ s.pinnedElement # element THEN showTooltip(s, s.pinnedElement, TRUE)
  ELSE hideTooltip(s)

----------------------------------------------------------------------------
(* Content script: initialization of an instance on a page *)

\* chrome.runtime is there and the page is not the extension's popup
validateEnvironment(s) == s.chromeRuntime /\ ~s.popupPage

checkExistingInitialization(s) == s.caltechExtensionInitialized = TRUE

\* init with the flag written only once the data has been loaded
initMarksLate(s, i) ==
  IF ~validateEnvironment(s) THEN [s EXCEPT !.instances[i].at = "aborted"]
  ELSE IF checkExistingInitialization(s) THEN [s EXCEPT !.instances[i].at = "skipped"]
  ELSE [s EXCEPT !.instances[i].at = "loading",
                 !.loads = @ + 1]

\* init of instance i up to its await of loadSettings and loadCourseData
init(s, i) ==
  IF ~validateEnvironment(s) THEN [s EXCEPT !.instances[i].at = "aborted"]
  ELSE IF checkExistingInitialization(s) THEN [s EXCEPT !.instances[i].at = "skipped"]
  ELSE [s EXCEPT !.caltechExtensionInitialized = TRUE,
                 !.instances[i].at = "loading",
                 !.loads = @ + 1]

\* new CaltechCourseTooltip(): the constructor sets the fields and calls init
construct(s) ==
  init([s EXCEPT !.instances = Append(@, [at |-> "constructed", courses |-> 0,
                                           extensionEnabled |-> TRUE])],
       Len(s.instances) + 1)

\* the constructor called n times in a row
RECURSIVE constructTimes(_, _)
constructTimes(s, n) == IF n = 0 THEN s ELSE constructTimes(construct(s), n - 1)

\* init once both loads have settled (neither rejects), up to its await of
\* processExistingContent
initLoaded(s, i, courses, extensionEnabled) ==
  IF courses = 0
  THEN [s EXCEPT !.instances[i] = [at |-> "limited", courses |-> 0,
                                   extensionEnabled |-> extensionEnabled]]
  ELSE [s EXCEPT !.tooltips = @ + 1,
                 !.listeners = @ + 1,
                 !.processings = IF extensionEnabled THEN @ + 1 ELSE @,
                 !.instances[i] = [at |-> IF extensionEnabled THEN "processing" ELSE "disabled",
                                   courses |-> courses,
                                   extensionEnabled |-> extensionEnabled]]

\* init once processExistingContent has settled
initProcessed(s, i, thrown) ==
  IF thrown THEN [s EXCEPT !.instances[i].at = "failed"]
  ELSE [s EXCEPT !.observers = @ + 1, !.instances[i].at = "ready"]

----------------------------------------------------------------------------
(* Popup: the course lookup and the settings *)

\* the result area shows what the lookup id displayed last; latest is the
\* newest lookup that has displayed a response
display(s, id, kind) ==
  [s EXCEPT !.shown = [kind |-> kind, id |-> id],
            !.latest = IF id > @ THEN id ELSE @,
            !.lookups[id].at = "done"]

\* lookupCourse up to its first await: the loading indicator is shown and
\* FIND_COURSE is sent to the background script; settings are the display
\* preferences the caller hands over
lookupCourse(s, courseCode, settings) ==
  [s EXCEPT !.issued = @ + 1,
            !.lookups[s.issued + 1] = [at |-> "background", courseCode |-> courseCode,
                                       settings |-> settings],
            !.shown = [kind |-> "loading", id |-> s.issued + 1]]

showDefaultLookupMessage(s) == [s EXCEPT !.shown = [kind |-> "default", id |-> 0]]

\* JavaScript values are records of one field named after their kind:
\* [boolean |-> TRUE], [string |-> "on"], [number |-> 1], null
typeof(value) ==
  CASE DOMAIN value = {"boolean"} -> "boolean"
    [] DOMAIN value = {"string"} -> "string"
    [] DOMAIN value = {"number"} -> "number"
    [] DOMAIN value = {"undefined"} -> "undefined"
    [] OTHER -> "object"

\* DEFAULT_SETTINGS of the popup
PopupDefaultSettings ==
  [extensionEnabled |-> [boolean |-> TRUE], showName |-> [boolean |-> TRUE],
   showUnits |-> [boolean |-> TRUE], showTerms |-> [boolean |-> TRUE],
   showPrerequisites |-> [boolean |-> TRUE], showDescription |-> [boolean |-> FALSE],
   showInstructors |-> [boolean |-> TRUE]]

TOGGLE_IDS == DOMAIN PopupDefaultSettings

\* validateSettings with the type check left out
validateSettingsUntyped(settings) ==
  [key \in DOMAIN PopupDefaultSettings |->
     IF key \in DOMAIN settings THEN settings[key] ELSE PopupDefaultSettings[key]]

validateSettings(settings) ==
  [key \in DOMAIN PopupDefaultSettings |->
     IF key \in DOMAIN settings /\ typeof(settings[key]) = typeof(PopupDefaultSettings[key])
     THEN settings[key]
     ELSE PopupDefaultSettings[key]]

\* loadSettings on a storage that answers
loadSettings(storage) == validateSettings(storageGet(storage, PopupDefaultSettings))

\* { ...settings, [toggleId]: checked }
withKey(settings, toggleId, value) ==
  [key \in DOMAIN settings \cup {toggleId} |-> IF key = toggleId THEN value ELSE settings[key]]

\* handleToggleChange up to its await of chrome.storage.sync.set
handleToggleChange(s, toggleId, checked) ==
  [s EXCEPT !.changes = @ + 1,
            !.saves = @ \cup {[id |-> s.changes + 1, toggleId |-> toggleId, checked |-> checked,
                               validatedSettings |->
                                 validateSettings(withKey(s.settings, toggleId,
                                                          [boolean |-> checked]))]}]

\* handleToggleChange after chrome.storage.sync.set has resolved
saveResolved(s, save) ==
  [s EXCEPT !.saves = @ \ {save},
            !.storage = storageSet(@, save.validatedSettings),
            !.settings = storageSet(@, save.validatedSettings),
            !.status = IF save.toggleId = "extensionEnabled" THEN save.checked ELSE @,
            !.refreshed = IF s.lookupActive THEN Append(@, save.validatedSettings) ELSE @,
            !.sent = Append(@, [type |-> "SETTINGS_UPDATED",
                                settings |-> save.validatedSettings])]

\* the catch block of handleToggleChange, when the local reference has been
\* updated before the save
saveRejectedAfterAssign(s, save) ==
  [s EXCEPT !.saves = @ \ {save},
            !.settings = storageSet(@, save.validatedSettings),
            !.errorCount = @ + 1,
            !.toggles[save.toggleId] = ~save.checked]

\* handleToggleChange after chrome.storage.sync.set has rejected: the catch block
saveRejected(s, save) ==
  [s EXCEPT !.saves = @ \ {save},
            !.errorCount = @ + 1,
            !.toggles[save.toggleId] = ~save.checked]

----------------------------------------------------------------------------
(* The inputs: catalogs and page texts *)

\* the catalog of the scenarios of the design document
ScenarioCatalog ==
  << [course_code_original |-> <<"C", "S", " ", "1", "5", "6">>,
     name |-> <<"L", "e", "a", "r", "n", "i", "n", "g", " ", "S", "y", "s", "t", "e", "m", "s">>],
     [course_code_original |-> <<"M", "a", "/", "C", "S", " ", "6", "/", "1", "0", "6", " ", "a", "b", "c">>,
     name |-> <<"D", "i", "s", "c", "r", "e", "t", "e", " ", "M", "a", "t", "h">>],
     [course_code_original |-> <<"A", "C", "M", " ", "9", "5", "/", "1", "0", "0", " ", "a", "b">>,
     name |-> <<"M", "e", "t", "h", "o", "d", "s">>],
     [course_code_original |-> <<"A", "P", "h", " ", "2", "3">>,
     name |-> <<"O", "p", "t", "i", "c", "s">>],
     [course_code_original |-> <<"E", "E", " ", "2", "4">>,
     name |-> <<"C", "i", "r", "c", "u", "i", "t", "s">>],
     [course_code_original |-> <<"E", "C", " ", "1", "2", "1", " ", "a">>,
     name |-> <<"T", "h", "e", "o", "r", "y", " ", "o", "f", " ", "V", "a", "l", "u", "e", " ", "I">>],
     [course_code_original |-> <<"E", "C", " ", "1", "2", "1", " ", "b">>,
     name |-> <<"T", "h", "e", "o", "r", "y", " ", "o", "f", " ", "V", "a", "l", "u", "e", " ", "I", "I">>] >>

\* a department whose course numbers share digits
NumberedCatalog ==
  << [course_code_original |-> <<"E", "C", " ", "1">>,
     name |-> <<"E", "c", "o", "n", "o", "m", "i", "c", "s">>],
     [course_code_original |-> <<"E", "C", " ", "1", "2">>,
     name |-> <<"M", "a", "r", "k", "e", "t", "s">>] >>

Catalogs == {ScenarioCatalog, NumberedCatalog}

\* the pieces page texts are put together from
Pieces ==
  << <<"T", "a", "k", "e", " ">>,
     <<"C", "S", " ", "1", "5", "6">>,
     <<" ", "n", "e", "x", "t", " ", "t", "e", "r", "m", ".">>,
     <<".">>,
     <<"A", "P", "h", "/", "E", "E", " ", "2", "3", "/", "2", "4">>,
     <<"M", "a", "/", "C", "S", " ", "6", "/", "1", "0", "6">>,
     <<"E", "C", " ", "1">>,
     <<"/", "2">>,
     <<"/", "1", "2">>,
     <<"/", "1">>,
     <<"\n", "-", "2">>,
     <<",", " ", "2">> >>

MaxPieces == 3

\* the texts made of n pieces
RECURSIVE TextsOf(_)
TextsOf(n) ==
  IF n = 0 THEN {<<>>}
  ELSE {t \o Pieces[i] : t \in TextsOf(n - 1), i \in DOMAIN Pieces}

Texts == UNION {TextsOf(n) : n \in 1..MaxPieces}

----------------------------------------------------------------------------
(* processTextNode on one text node of the page *)

Init ==
  /\ pc = "idle"
  /\ catalog \in Catalogs
  /\ text \in Texts
  /\ allMatches = <<>>
  /\ validMatches = <<>>
  /\ nodes = <<textNode(text)>>
  /\ code = <<>>
  /\ result = null
  /\ session = NoSession
  /\ tooltip = NoTooltip

\* processTextNode up to the return of detectCourseInText
ProcessTextNodeDetect ==
  /\ pc = "idle"
  /\ \E found \in {IF trim(text) = <<>> THEN <<>> ELSE detectCourseInText(text, catalog)} :
       /\ allMatches' = found
       /\ pc' = IF found = <<>> THEN "done" ELSE "detected"
  /\ UNCHANGED <<catalog, text, validMatches, nodes, code, result, session, tooltip>>

\* processTextNode from the validation loop to the replacement of the text node
ProcessTextNodeHighlight ==
  /\ pc = "detected"
  /\ \E valid \in {sortByIndex(validate(allMatches, catalog))} :
       /\ validMatches' = valid
       /\ nodes' = IF valid = <<>> THEN nodes ELSE buildFragment(text, valid, 1, 0)
  /\ pc' = "done"
  /\ UNCHANGED <<catalog, text, allMatches, code, result, session, tooltip>>

Next == ProcessTextNodeDetect \/ ProcessTextNodeHighlight

Spec == Init /\ [][Next]_vars

----------------------------------------------------------------------------
(* processTextNode on one text node, then removeAllHighlights *)

RemoveAllHighlights ==
  /\ pc = "done"
  /\ pc' = "restored"
  /\ nodes' = restoreHighlights(nodes)
  /\ UNCHANGED <<catalog, text, allMatches, validMatches, code, result, session, tooltip>>

NextRestore == ProcessTextNodeDetect \/ ProcessTextNodeHighlight \/ RemoveAllHighlights

SpecRestore == Init /\ [][NextRestore]_vars

----------------------------------------------------------------------------
(* Background lookups on their own: the FIND_COURSE handler, the composer   *)
(* and the matcher applied to inputs drawn from small sets.                 *)

MaxLetters == 3

SectionLetters == {"a", "b", "d"}

RECURSIVE LetterSeqs(_)
LetterSeqs(n) ==
  IF n = 0 THEN {<<>>}
  ELSE LetterSeqs(n - 1)
         \cup {w \o <<l>> : w \in {x \in LetterSeqs(n - 1) : Len(x) = n - 1}, l \in SectionLetters}

\* a course code as typed: department, number, optional gap, section letters
CodeParts ==
  [department : {<<"E", "C">>, <<"M", "a", "/", "C", "S">>},
   number     : {<<"1", "2", "1">>, <<"6">>, <<"6", "/", "1", "0", "6">>},
   gap        : {<<>>, <<" ">>},
   letters    : LetterSeqs(MaxLetters)]

codeOf(c) == c.department \o <<" ">> \o c.number \o c.gap \o c.letters

LookupCatalogs ==
  { << [course_code_original |-> <<"E", "C", " ", "1", "2", "1", " ", "a">>, name |-> <<"P", "r", "i", "c", "e", " ", "T", "h", "e", "o", "r", "y", " ", "I">>], [course_code_original |-> <<"E", "C", " ", "1", "2", "1", " ", "b">>, name |-> <<"P", "r", "i", "c", "e", " ", "T", "h", "e", "o", "r", "y", " ", "I", "I">>] >>,
    << [course_code_original |-> <<"E", "C", " ", "1", "2", "1", " ", "a", "b">>, name |-> <<"P", "r", "i", "c", "e", " ", "T", "h", "e", "o", "r", "y">>], [course_code_original |-> <<"M", "a", "/", "C", "S", " ", "6", " ", "a">>, name |-> <<"D", "i", "s", "c", "r", "e", "t", "e", " ", "M", "a", "t", "h", " ", "a">>] >>,
    << [course_code_original |-> <<"M", "a", "/", "C", "S", " ", "6", " ", "d">>, name |-> <<"L", "o", "g", "i", "c", " ", "(", "d", ")">>], [course_code_original |-> <<"M", "a", "/", "C", "S", " ", "6", " ", "b">>, name |-> <<"C", "o", "m", "b", "i", "n", "a", "t", "o", "r", "i", "c", "s">>], [course_code_original |-> <<"M", "a", "/", "C", "S", " ", "6", " ", "a">>, name |-> <<"G", "r", "a", "p", "h", "s">>] >>,
    << [course_code_original |-> <<"M", "a", "/", "C", "S", " ", "6", "/", "1", "0", "6", " ", "a">>, name |-> <<"D", "i", "s", "c", "r", "e", "t", "e", " ", "M", "a", "t", "h">>], [course_code_original |-> <<"M", "a", "/", "C", "S", " ", "6", "/", "1", "0", "6", " ", "b">>, name |-> <<"D", "i", "s", "c", "r", "e", "t", "e", " ", "M", "a", "t", "h">>] >> }

InitFind ==
  /\ pc = "lookup"
  /\ catalog \in LookupCatalogs
  /\ \E c \in CodeParts : (c.letters = <<>> => c.gap = <<>>) /\ code = c
  /\ text = <<>>
  /\ allMatches = <<>>
  /\ validMatches = <<>>
  /\ nodes = <<>>
  /\ result = null
  /\ session = NoSession
  /\ tooltip = NoTooltip

\* the FIND_COURSE message: the catalog lookup with the composer as fallback
handleFindCourse ==
  /\ pc = "lookup"
  /\ pc' = "found"
  /\ result' = findCourseInCatalog(codeOf(code), catalog)
  /\ UNCHANGED <<catalog, text, allMatches, validMatches, nodes, code, session, tooltip>>

\* the composer applied on its own
FindSectionBasedMatch ==
  /\ pc = "lookup"
  /\ pc' = "composed"
  /\ result' = findSectionBasedMatch(codeOf(code), catalog)
  /\ UNCHANGED <<catalog, text, allMatches, validMatches, nodes, code, session, tooltip>>

NextFind == handleFindCourse \/ FindSectionBasedMatch

SpecFind == InitFind /\ [][NextFind]_vars

\* the matcher applied to one course and one variant
MatchCourses ==
  { [course_code_original |-> <<"M", "a", "/", "C", "S", " ", "6">>, name |-> <<"D", "i", "s", "c", "r", "e", "t", "e", " ", "M", "a", "t", "h">>],
    [course_code_original |-> <<"M", "a", "/", "C", "S", " ", "6", "/", "1", "0", "6", " ", "a", "b", "c">>, name |-> <<"D", "i", "s", "c", "r", "e", "t", "e", " ", "M", "a", "t", "h">>],
    [course_code_original |-> <<"E", "C", " ", "1", "2", "1", " ", "a">>, name |-> <<"P", "r", "i", "c", "e", " ", "T", "h", "e", "o", "r", "y">>],
    [course_code_original |-> <<"A", "C", "M", " ", "9", "5", "/", "1", "0", "0", " ", "a", "b">>, name |-> <<"M", "e", "t", "h", "o", "d", "s">>] }

VariantParts ==
  [prefixes : {<<>>, <<"M", "a">>, <<"C", "S">>, <<"M", "a", "/", "C", "S">>, <<"C", "S", "/", "M", "a">>, <<"M", "a", "C", "S">>, <<"E", "E">>, <<"M", "a", "/", "E", "E">>, <<"e", "c">>, <<"A", "C", "M">>},
   gap      : {<<>>, <<" ">>},
   number   : {<<>>, <<"1", "0", "0">>, <<"6">>, <<"1", "0", "6">>, <<"6", "/", "1", "0", "6">>, <<"1", "2", "1">>, <<"9", "5">>},
   letters  : {<<>>, <<" ", "a">>, <<"a", "b">>, <<"d">>}]

variantOf(v) == v.prefixes \o v.gap \o v.number \o v.letters

InitMatch ==
  /\ pc = "match"
  /\ \E c \in MatchCourses : catalog = <<c>>
  /\ \E v \in VariantParts : code = variantOf(v)
  /\ text = <<>>
  /\ allMatches = <<>>
  /\ validMatches = <<>>
  /\ nodes = <<>>
  /\ result = null
  /\ session = NoSession
  /\ tooltip = NoTooltip

DoesCourseMatch ==
  /\ pc = "match"
  /\ pc' = "matched"
  /\ result' = doesCourseMatch(catalog[1], {code})
  /\ UNCHANGED <<catalog, text, allMatches, validMatches, nodes, code, session, tooltip>>

NextMatch == DoesCourseMatch

SpecMatch == InitMatch /\ [][NextMatch]_vars

----------------------------------------------------------------------------
(* The lookup applied to codes with one number, two numbers and no number *)

\* a course code as typed; the number group may be empty
NumberParts ==
  [department : {<<"E", "C">>, <<"M", "a", "/", "C", "S">>, <<"M", "a">>, <<"C", "S">>},
   number     : {<<>>, <<"1">>, <<"2">>, <<"1", "2">>, <<"1", "/", "2">>, <<"6">>, <<"1", "0", "6">>, <<"6", "/", "1", "0", "6">>},
   gap        : {<<>>, <<" ">>},
   letters    : {<<>>, <<"a">>}]

\* a catalog with a course whose number is the concatenation of two others
ConcatenatedCatalog ==
  << [course_code_original |-> <<"C", "S", " ", "6", "1", " ", "a">>, name |-> <<"S", "y", "s", "t", "e", "m", "s">>],
     [course_code_original |-> <<"E", "C", " ", "1", "2", " ", "a">>, name |-> <<"M", "a", "r", "k", "e", "t", "s">>] >>

NumberCatalogs == {NumberedCatalog, ScenarioCatalog, ConcatenatedCatalog}

InitNumbers ==
  /\ pc = "lookup"
  /\ catalog \in NumberCatalogs
  /\ \E c \in NumberParts : (c.letters = <<>> => c.gap = <<>>) /\ code = c
  /\ text = <<>>
  /\ allMatches = <<>>
  /\ validMatches = <<>>
  /\ nodes = <<>>
  /\ result = null
  /\ session = NoSession
  /\ tooltip = NoTooltip

SpecNumbers == InitNumbers /\ [][NextFind]_vars

----------------------------------------------------------------------------
(* The letter check of the matcher applied to pairs of letter strings *)

MaxCheckLetters == 3

CheckLetters == {"A", "B", "C"}

\* the letter strings of length up to n
RECURSIVE LetterStrings(_)
LetterStrings(n) ==
  IF n = 0 THEN {<<>>}
  ELSE LetterStrings(n - 1)
         \cup {w \o <<l>> : w \in {x \in LetterStrings(n - 1) : Len(x) = n - 1},
                             l \in CheckLetters}

InitLetters ==
  /\ pc = "letters"
  /\ code \in [inputLetters : LetterStrings(MaxCheckLetters),
                courseLetters : LetterStrings(MaxCheckLetters)]
  /\ catalog = <<>>
  /\ text = <<>>
  /\ allMatches = <<>>
  /\ validMatches = <<>>
  /\ nodes = <<>>
  /\ result = null
  /\ session = NoSession
  /\ tooltip = NoTooltip

CheckLetterCompatibility ==
  /\ pc = "letters"
  /\ pc' = "compatible"
  /\ result' = checkLetterCompatibility(code.inputLetters, code.courseLetters)
  /\ UNCHANGED <<catalog, text, allMatches, validMatches, nodes, code, session, tooltip>>

IsLetterSubset ==
  /\ pc = "letters"
  /\ pc' = "subset"
  /\ result' = isLetterSubset(code.inputLetters, code.courseLetters)
  /\ UNCHANGED <<catalog, text, allMatches, validMatches, nodes, code, session, tooltip>>

NextLetters == CheckLetterCompatibility \/ IsLetterSubset

SpecLetters == InitLetters /\ [][NextLetters]_vars

----------------------------------------------------------------------------
(* detectRangeCourses applied to texts that hold a range *)

\* a range as written on a page: department, numbers, dash and what follows
RangeParts ==
  [department : {<<"E", "C">>, <<"M", "a", "/", "C", "S">>},
   gap        : {<<>>, <<" ">>},
   first      : {<<"1">>, <<"2">>, <<"1", "2">>, <<"1", "2", "0">>, <<"0", "0", "7">>},
   dash       : {<<"-">>, <<" ", "-", " ">>, <<"\n", "-">>},
   second     : {<<"1">>, <<"2">>, <<"1", "2">>, <<"2", "2">>, <<"1", "2", "2">>, <<"1", "4", "1">>, <<"0", "0", "9">>},
   tail       : {<<>>, <<".">>, <<"a">>}]

rangeTextOf(r) == r.department \o r.gap \o r.first \o r.dash \o r.second \o r.tail

InitRange ==
  /\ pc = "range"
  /\ \E r \in RangeParts : text = rangeTextOf(r)
  /\ catalog = <<>>
  /\ allMatches = <<>>
  /\ validMatches = <<>>
  /\ nodes = <<>>
  /\ code = <<>>
  /\ result = null
  /\ session = NoSession
  /\ tooltip = NoTooltip

DetectRangeCourses ==
  /\ pc = "range"
  /\ pc' = "ranges"
  /\ allMatches' = detectRangeCourses(text)
  /\ UNCHANGED <<catalog, text, validMatches, nodes, code, result, session, tooltip>>

NextRange == DetectRangeCourses

SpecRange == InitRange /\ [][NextRange]_vars

----------------------------------------------------------------------------
(* processTextNode on text nodes that hold a range *)

\* catalogs in which some of the numbers of a range exist; the entries are not
\* in ascending order
RangeCatalogs ==
  { << [course_code_original |-> <<"E", "C", " ", "1", "2">>,
     name |-> <<"M", "a", "r", "k", "e", "t", "s">>],
     [course_code_original |-> <<"E", "C", " ", "7">>,
     name |-> <<"T", "r", "a", "d", "e">>],
     [course_code_original |-> <<"E", "C", " ", "2">>,
     name |-> <<"M", "o", "n", "e", "y">>],
     [course_code_original |-> <<"M", "a", "/", "C", "S", " ", "9">>,
     name |-> <<"L", "o", "g", "i", "c">>] >>,
    << [course_code_original |-> <<"E", "C", " ", "1", "2", "1", " ", "a">>,
     name |-> <<"P", "r", "i", "c", "e", " ", "T", "h", "e", "o", "r", "y", " ", "I">>],
     [course_code_original |-> <<"E", "C", " ", "1", "2", "1", " ", "b">>,
     name |-> <<"P", "r", "i", "c", "e", " ", "T", "h", "e", "o", "r", "y", " ", "I", "I">>],
     [course_code_original |-> <<"E", "C", " ", "1", "2", "2">>,
     name |-> <<"E", "c", "o", "n", "o", "m", "e", "t", "r", "i", "c", "s">>] >> }

RangePageTexts == {rangeTextOf(r) : r \in {x \in RangeParts : x.tail = <<>>}}

InitRangePage ==
  /\ pc = "idle"
  /\ catalog \in RangeCatalogs
  /\ text \in RangePageTexts
  /\ allMatches = <<>>
  /\ validMatches = <<>>
  /\ nodes = <<textNode(text)>>
  /\ code = <<>>
  /\ result = null
  /\ session = NoSession
  /\ tooltip = NoTooltip

SpecRangePage == InitRangePage /\ [][Next]_vars

----------------------------------------------------------------------------
(* detectShorthandCourses applied to texts that hold a list of numbers *)

ShorthandTokens == {<<"1", "5">>, <<"1", "6", "a">>, <<"1", "3", "7">>}

ShorthandSeparators == {<<",", " ">>, <<" ", "a", "n", "d", " ">>, <<",", " ", "a", "n", "d", " ">>, <<",">>}

\* a shorthand list as written on a page: what precedes it, the prefix group,
\* two or three <number><letters> tokens with their separators, what follows
ShorthandParts ==
  [lead   : {<<>>, <<"S", "e", "e", " ">>},
   prefix : {<<"C", "S">>, <<"G", "e", "/", "A", "y">>},
   gap    : {<<" ">>},
   tokens : [1..2 -> ShorthandTokens] \cup [1..3 -> ShorthandTokens],
   seps   : [1..1 -> ShorthandSeparators]
              \cup [1..2 -> {<<",", " ">>, <<" ", "a", "n", "d", " ">>}],
   tail   : {<<>>, <<".">>}]

\* the tokens from the j-th on, each preceded by its separator
RECURSIVE tokensFrom(_, _)
tokensFrom(c, j) ==
  IF j > Len(c.tokens) THEN <<>>
  ELSE c.seps[j - 1] \o c.tokens[j] \o tokensFrom(c, j + 1)

shorthandTextOf(c) ==
  c.lead \o c.prefix \o c.gap \o c.tokens[1] \o tokensFrom(c, 2) \o c.tail

InitShorthand ==
  /\ pc = "shorthand"
  /\ code \in {c \in ShorthandParts : Len(c.seps) = Len(c.tokens) - 1}
  /\ text = shorthandTextOf(code)
  /\ catalog = <<>>
  /\ allMatches = <<>>
  /\ validMatches = <<>>
  /\ nodes = <<>>
  /\ result = null
  /\ session = NoSession
  /\ tooltip = NoTooltip

DetectShorthandCourses ==
  /\ pc = "shorthand"
  /\ pc' = "shorthands"
  /\ allMatches' = detectShorthandCourses(text)
  /\ UNCHANGED <<catalog, text, validMatches, nodes, code, result, session, tooltip>>

NextShorthand == DetectShorthandCourses

SpecShorthand == InitShorthand /\ [][NextShorthand]_vars

----------------------------------------------------------------------------
(* findCourseInCatalog called with a catalog argument of any kind *)

\* the values the courses argument can take: arrays, and values that are not
\* arrays (items is what an array holds)
CatalogValues ==
  { [kind |-> "array", items |-> <<>>],
    [kind |-> "array",
     items |-> << [course_code_original |-> <<"E", "C", " ", "1", "2", "1", " ", "a">>,
                name |-> <<"P", "r", "i", "c", "e", " ", "T", "h", "e", "o", "r", "y", " ", "I">>],
                  [course_code_original |-> <<"E", "C", " ", "1", "2", "1", " ", "b">>,
                name |-> <<"P", "r", "i", "c", "e", " ", "T", "h", "e", "o", "r", "y", " ", "I", "I">>] >>],
    [kind |-> "null", items |-> <<>>],
    [kind |-> "undefined", items |-> <<>>],
    [kind |-> "object", items |-> <<>>],
    [kind |-> "string", items |-> <<>>] }

\* Array.isArray(courses)
isArray(courses) == courses.kind = "array"

\* what a call leaves when it throws
TypeError == [threw |-> "TypeError"]

\* a copy without the guard: courses.find is called on whatever is passed
findCourseInCatalogUnguarded(courseCode, courses) ==
  IF ~isArray(courses) THEN TypeError
  ELSE findCourseInCatalog(courseCode, courses.items)

\* findCourseInCatalog with its guard on the courses argument
findCourseInCatalogOf(courseCode, courses) ==
  IF courseCode = <<>> \/ ~isArray(courses) THEN null
  ELSE findCourseInCatalog(courseCode, courses.items)

InitCatalog ==
  /\ pc = "call"
  /\ catalog \in CatalogValues
  /\ \E c \in CodeParts : (c.letters = <<>> => c.gap = <<>>) /\ code = c
  /\ text = <<>>
  /\ allMatches = <<>>
  /\ validMatches = <<>>
  /\ nodes = <<>>
  /\ result = null
  /\ session = NoSession
  /\ tooltip = NoTooltip

FindCourseInCatalog ==
  /\ pc = "call"
  /\ pc' = "returned"
  /\ result' = findCourseInCatalogOf(codeOf(code), catalog)
  /\ UNCHANGED <<catalog, text, allMatches, validMatches, nodes, code, session, tooltip>>

NextCatalog == FindCourseInCatalog

SpecCatalog == InitCatalog /\ [][NextCatalog]_vars

----------------------------------------------------------------------------
(* One session of the background script: messages, fetches, cache expiry *)

MaxRequests == 3

unsent == [type |-> "none", at |-> "unsent", hit |-> FALSE, success |-> FALSE]

Messages ==
  [type : {"GET_CATALOG_DATA"}, hasCourseCode : {TRUE}]
    \cup [type : {"FIND_COURSE"}, hasCourseCode : BOOLEAN]

InitSession ==
  /\ pc = "session"
  /\ session = [NoSession EXCEPT !.requests = [r \in 1..MaxRequests |-> unsent]]
  /\ catalog = <<>>
  /\ text = <<>>
  /\ allMatches = <<>>
  /\ validMatches = <<>>
  /\ nodes = <<>>
  /\ code = <<>>
  /\ result = null
  /\ tooltip = NoTooltip

\* the onMessage listener with handleGetCatalogData or handleFindCourse, up to
\* the first await
OnMessage ==
  \E r \in 1..MaxRequests : \E message \in Messages :
    /\ session.requests[r].at = "unsent"
    /\ session' = IF message.type = "FIND_COURSE" /\ ~message.hasCourseCode
                  THEN rejected(session, r, message)
                  ELSE loadCourseData(session, r, message)
    /\ UNCHANGED <<pc, catalog, text, allMatches, validMatches, nodes, code, result, tooltip>>

\* the fetch of catalog.json settles: the catalog is cached and the request
\* answered, or the load fails and the request is answered with an error
FetchSettles ==
  \E r \in 1..MaxRequests : \E ok \in BOOLEAN :
    /\ session.requests[r].at = "fetching"
    /\ session' = [session EXCEPT !.cache = IF ok THEN "fresh" ELSE @,
                                  !.requests[r].at = "answered",
                                  !.requests[r].success = ok]
    /\ UNCHANGED <<pc, catalog, text, allMatches, validMatches, nodes, code, result, tooltip>>

\* the cached catalog is older than the time to live: the timer set by
\* CacheManager.set deletes it
Expire ==
  /\ session.cache = "fresh"
  /\ session' = [session EXCEPT !.cache = "empty"]
  /\ UNCHANGED <<pc, catalog, text, allMatches, validMatches, nodes, code, result, tooltip>>

NextSession == OnMessage \/ FetchSettles \/ Expire

SpecSession == InitSession /\ [][NextSession]_vars

----------------------------------------------------------------------------
(* The message listener of the background script: every kind of message *)

notDelivered ==
  [type |-> "none", wellFormed |-> FALSE, at |-> "unsent", responses |-> 0,
   success |-> FALSE, error |-> ""]

\* wellFormed: the message is an object whose type is a string
ListenerMessages ==
  [type : {"GET_CATALOG_DATA", "FIND_COURSE", "GET_STATS", "CLEAR_CACHE", "PING"},
   wellFormed : {TRUE}, hasCourseCode : BOOLEAN]
    \cup [type : {"none"}, wellFormed : {FALSE}, hasCourseCode : {FALSE}]

InitListener ==
  /\ pc = "listener"
  /\ session = [NoSession EXCEPT !.requests = [r \in 1..MaxRequests |-> notDelivered]]
  /\ catalog = <<>>
  /\ text = <<>>
  /\ allMatches = <<>>
  /\ validMatches = <<>>
  /\ nodes = <<>>
  /\ code = <<>>
  /\ result = null
  /\ tooltip = NoTooltip

\* a message is delivered: the listener and the handler run up to the first await
Deliver ==
  \E r \in 1..MaxRequests : \E message \in ListenerMessages :
    /\ pc = "listener"
    /\ session.requests[r].at = "unsent"
    /\ message.hasCourseCode => message.type = "FIND_COURSE"
    /\ session' = onMessage(session, r, message)
    /\ UNCHANGED <<pc, catalog, text, allMatches, validMatches, nodes, code, result, tooltip>>

\* fetch settles: with a response that is ok, with one that is not (loadCourseData
\* throws), or it rejects; the handler's catch block answers the error
FetchResponds ==
  \E r \in 1..MaxRequests : \E outcome \in {"ok", "HTTP error", "Failed to fetch"} :
    /\ pc = "listener"
    /\ session.requests[r].at = "fetching"
    /\ session' = IF outcome = "ok" THEN [session EXCEPT !.requests[r].at = "parsing"]
                  ELSE sendResponse(session, r, [success |-> FALSE, error |-> outcome])
    /\ UNCHANGED <<pc, catalog, text, allMatches, validMatches, nodes, code, result, tooltip>>

\* response.json() settles: an array is cached and returned to the handler,
\* anything else makes loadCourseData throw
JsonParsed ==
  \E r \in 1..MaxRequests : \E outcome \in {"array", "Invalid catalog format", "SyntaxError"} :
    /\ pc = "listener"
    /\ session.requests[r].at = "parsing"
    /\ session' = IF outcome = "array"
                  THEN [session EXCEPT !.cache = "fresh", !.requests[r].at = "resuming"]
                  ELSE sendResponse(session, r, [success |-> FALSE, error |-> outcome])
    /\ UNCHANGED <<pc, catalog, text, allMatches, validMatches, nodes, code, result, tooltip>>

\* the handler resumes with the catalog: handleGetCatalogData answers it,
\* handleFindCourse answers the lookup, or the error the lookup threw
HandlerResumes ==
  \E r \in 1..MaxRequests : \E thrown \in BOOLEAN :
    /\ pc = "listener"
    /\ session.requests[r].at = "resuming"
    /\ thrown => session.requests[r].type = "FIND_COURSE"
    /\ session' = IF thrown
                  THEN sendResponse(session, r, [success |-> FALSE, error |-> "TypeError"])
                  ELSE sendResponse(session, r, [success |-> TRUE, error |-> ""])
    /\ UNCHANGED <<pc, catalog, text, allMatches, validMatches, nodes, code, result, tooltip>>

NextListener == Deliver \/ FetchResponds \/ JsonParsed \/ HandlerResumes \/ Expire

\* a fetch settles and a promise that has settled resumes its handler
SpecListener ==
  /\ InitListener
  /\ [][NextListener]_vars
  /\ WF_vars(FetchResponds)
  /\ WF_vars(JsonParsed)
  /\ WF_vars(HandlerResumes)

----------------------------------------------------------------------------
(* The cache manager: set, get, delete, clear, the timers and the clock *)

\* the time to live, in ticks of the clock
Ttl == 2

MaxTime == 5

CacheValues == {[data |-> "catalog"], [data |-> "settings"]}

\* stored[key]: the last set(key, v) and whether a caller has called delete(key)
\* or clear() since; returned: the last call of get
InitCache ==
  /\ pc = "cache"
  /\ session = [now |-> 0, ttl |-> Ttl,
                cache |-> [k \in CacheKeys |-> none],
                timers |-> [k \in CacheKeys |-> none],
                stored |-> [k \in CacheKeys |-> none],
                returned |-> none]
  /\ catalog = <<>>
  /\ text = <<>>
  /\ allMatches = <<>>
  /\ validMatches = <<>>
  /\ nodes = <<>>
  /\ code = <<>>
  /\ result = null
  /\ tooltip = NoTooltip

CacheSet ==
  \E key \in CacheKeys : \E value \in CacheValues :
    /\ pc \in {"cache", "got"}
    /\ pc' = "cache"
    /\ session' = [cacheSet(session, key, value) EXCEPT
                     !.stored[key] = [value |-> value, at |-> session.now, removed |-> FALSE],
                     !.returned = none]
    /\ UNCHANGED <<catalog, text, allMatches, validMatches, nodes, code, result, tooltip>>

CacheGet ==
  \E key \in CacheKeys :
    /\ pc \in {"cache", "got"}
    /\ pc' = "got"
    /\ session' = [cacheGet(session, key).manager EXCEPT
                     !.returned = [key |-> key, value |-> cacheGet(session, key).value]]
    /\ UNCHANGED <<catalog, text, allMatches, validMatches, nodes, code, result, tooltip>>

CacheDelete ==
  \E key \in CacheKeys :
    /\ pc \in {"cache", "got"}
    /\ pc' = "cache"
    /\ session' = [cacheDelete(session, key) EXCEPT
                     !.stored[key] = IF @ = none THEN none ELSE [@ EXCEPT !.removed = TRUE],
                     !.returned = none]
    /\ UNCHANGED <<catalog, text, allMatches, validMatches, nodes, code, result, tooltip>>

CacheClear ==
  /\ pc \in {"cache", "got"}
  /\ pc' = "cache"
  /\ session' = [cacheClear(session) EXCEPT
                   !.stored = [k \in CacheKeys |->
                                 IF session.stored[k] = none THEN none
                                 ELSE [session.stored[k] EXCEPT !.removed = TRUE]],
                   !.returned = none]
  /\ UNCHANGED <<catalog, text, allMatches, validMatches, nodes, code, result, tooltip>>

\* the timer set by set(key, v) fires, at its due time or later
TimerFires ==
  \E key \in CacheKeys :
    /\ pc \in {"cache", "got"}
    /\ session.timers[key] # none
    /\ session.now >= session.timers[key].due
    /\ pc' = "cache"
    /\ session' = [cacheDelete(session, key) EXCEPT !.returned = none]
    /\ UNCHANGED <<catalog, text, allMatches, validMatches, nodes, code, result, tooltip>>

\* the interval set by the constructor fires
CleanupInterval ==
  /\ pc \in {"cache", "got"}
  /\ session.now >= session.ttl
  /\ pc' = "cache"
  /\ session' = [cleanup(session) EXCEPT !.returned = none]
  /\ UNCHANGED <<catalog, text, allMatches, validMatches, nodes, code, result, tooltip>>

\* a millisecond passes
Tick ==
  /\ pc \in {"cache", "got"}
  /\ session.now < MaxTime
  /\ pc' = "cache"
  /\ session' = [session EXCEPT !.now = @ + 1, !.returned = none]
  /\ UNCHANGED <<catalog, text, allMatches, validMatches, nodes, code, result, tooltip>>

NextCache ==
  CacheSet \/ CacheGet \/ CacheDelete \/ CacheClear \/ TimerFires \/ CleanupInterval \/ Tick

SpecCache == InitCache /\ [][NextCache]_vars

----------------------------------------------------------------------------
(* Installation: initializeSettings on a storage of any content *)

\* the storages: any subset of the setting keys, each with a boolean
Storages == UNION {[K -> BOOLEAN] : K \in SUBSET DOMAIN DEFAULT_SETTINGS}

\* installed: the storage at install time
InitInstall ==
  /\ pc = "install"
  /\ \E storage \in Storages :
       session = [storage |-> storage, installed |-> storage, errors |-> 0]
  /\ catalog = <<>>
  /\ text = <<>>
  /\ allMatches = <<>>
  /\ validMatches = <<>>
  /\ nodes = <<>>
  /\ code = <<>>
  /\ result = null
  /\ tooltip = NoTooltip

\* the onInstalled listener runs initializeSettings; a storage call that rejects
\* is caught and counted
InitializeSettings ==
  \E rejects \in BOOLEAN :
    /\ pc = "install"
    /\ pc' = "installed"
    /\ session' = IF rejects THEN [session EXCEPT !.errors = @ + 1]
                  ELSE [session EXCEPT !.storage = initializeSettings(@)]
    /\ UNCHANGED <<catalog, text, allMatches, validMatches, nodes, code, result, tooltip>>

NextInstall == InitializeSettings

SpecInstall == InitInstall /\ [][NextInstall]_vars

----------------------------------------------------------------------------
(* The popup: lookups typed one after the other and their late responses *)

MaxLookups == 3

\* what the input holds, trimmed and in upper case, when the debounce timer fires
LookupInputs == {<<"C">>, <<"C", "S", " ", "1">>, <<"E", "C", " ", "2">>}

InitPopup ==
  /\ pc = "popup"
  /\ session = [issued |-> 0, latest |-> 0,
                lookups |-> [i \in 1..MaxLookups |->
                             [at |-> "idle", courseCode |-> <<>>, settings |-> "none"]],
                shown |-> [kind |-> "default", id |-> 0]]
  /\ catalog = <<>>
  /\ text = <<>>
  /\ allMatches = <<>>
  /\ validMatches = <<>>
  /\ nodes = <<>>
  /\ code = <<>>
  /\ result = null
  /\ tooltip = NoTooltip

\* the debounce timer of the input listener fires
SearchDebounceFires ==
  \E courseCode \in LookupInputs :
    /\ pc = "popup"
    /\ session.issued < MaxLookups
    /\ session' = IF Len(courseCode) >= 2 THEN lookupCourse(session, courseCode, "settings")
                  ELSE showDefaultLookupMessage(session)
    /\ UNCHANGED <<pc, catalog, text, allMatches, validMatches, nodes, code, result, tooltip>>

\* the settings have changed while the input holds a code
RefreshLookupIfActive ==
  \E courseCode \in LookupInputs :
    /\ pc = "popup"
    /\ session.issued < MaxLookups
    /\ Len(courseCode) >= 2
    /\ session' = lookupCourse(session, courseCode, "newSettings")
    /\ UNCHANGED <<pc, catalog, text, allMatches, validMatches, nodes, code, result, tooltip>>

\* the background script answers FIND_COURSE, or sendMessage rejects
BackgroundAnswers ==
  \E id \in 1..MaxLookups : \E outcome \in {"course", "no course", "error"} :
    /\ pc = "popup"
    /\ session.lookups[id].at = "background"
    /\ session' = IF outcome = "no course"
                  THEN [session EXCEPT !.lookups[id].at = "content script"]
                  ELSE display(session, id, outcome)
    /\ UNCHANGED <<pc, catalog, text, allMatches, validMatches, nodes, code, result, tooltip>>

\* the content script answers LOOKUP_COURSE, or there is none to answer
ContentScriptAnswers ==
  \E id \in 1..MaxLookups : \E outcome \in {"course", "not found"} :
    /\ pc = "popup"
    /\ session.lookups[id].at = "content script"
    /\ session' = display(session, id, outcome)
    /\ UNCHANGED <<pc, catalog, text, allMatches, validMatches, nodes, code, result, tooltip>>

NextPopup ==
  SearchDebounceFires \/ RefreshLookupIfActive \/ BackgroundAnswers \/ ContentScriptAnswers

SpecPopup == InitPopup /\ [][NextPopup]_vars

----------------------------------------------------------------------------
(* The popup: toggles changed one after the other, saves that succeed or fail *)

MaxToggleChanges == 2

\* what chrome.storage.sync holds when the popup opens
PopupStorages ==
  UNION {[K -> {[boolean |-> TRUE], [boolean |-> FALSE]}] :
           K \in SUBSET {"extensionEnabled", "showDescription"}}

InitToggle ==
  /\ pc = "toggle"
  /\ \E storage \in PopupStorages : \E lookupActive \in BOOLEAN :
       session = [storage |-> storage, settings |-> loadSettings(storage),
                  toggles |-> [t \in TOGGLE_IDS |-> loadSettings(storage)[t].boolean],
                  status |-> loadSettings(storage).extensionEnabled.boolean,
                  lookupActive |-> lookupActive, changes |-> 0, saves |-> {},
                  refreshed |-> <<>>, sent |-> <<>>, errorCount |-> 0]
  /\ catalog = <<>>
  /\ text = <<>>
  /\ allMatches = <<>>
  /\ validMatches = <<>>
  /\ nodes = <<>>
  /\ code = <<>>
  /\ result = null
  /\ tooltip = NoTooltip

\* the user clicks a toggle: the control flips and its change listener runs
ToggleChange ==
  \E toggleId \in TOGGLE_IDS :
    /\ pc = "toggle"
    /\ session.changes < MaxToggleChanges
    /\ session' = handleToggleChange([session EXCEPT !.toggles[toggleId] = ~@],
                                     toggleId, ~session.toggles[toggleId])
    /\ UNCHANGED <<pc, catalog, text, allMatches, validMatches, nodes, code, result, tooltip>>

SaveResolves ==
  \E save \in session.saves :
    /\ pc = "toggle"
    /\ session' = saveResolved(session, save)
    /\ UNCHANGED <<pc, catalog, text, allMatches, validMatches, nodes, code, result, tooltip>>

SaveRejects ==
  \E save \in session.saves :
    /\ pc = "toggle"
    /\ session' = saveRejected(session, save)
    /\ UNCHANGED <<pc, catalog, text, allMatches, validMatches, nodes, code, result, tooltip>>

NextToggle == ToggleChange \/ SaveResolves \/ SaveRejects

SpecToggle == InitToggle /\ [][NextToggle]_vars

----------------------------------------------------------------------------
(* validateSettings applied to settings objects of any content *)

\* the keys a supplied object may hold: three settings and one unknown key
SuppliedKeys == {"extensionEnabled", "showDescription", "showInstructors", "theme"}

\* the values a supplied key may have
SuppliedValues ==
  {[boolean |-> TRUE], [boolean |-> FALSE], [string |-> "true"], [number |-> 1], null}

InitValidate ==
  /\ pc = "validate"
  /\ session \in UNION {[K -> SuppliedValues] : K \in SUBSET SuppliedKeys}
  /\ catalog = <<>>
  /\ text = <<>>
  /\ allMatches = <<>>
  /\ validMatches = <<>>
  /\ nodes = <<>>
  /\ code = <<>>
  /\ result = null
  /\ tooltip = NoTooltip

ValidateSettings ==
  /\ pc = "validate"
  /\ pc' = "validated"
  /\ result' = validateSettings(session)
  /\ UNCHANGED <<catalog, text, allMatches, validMatches, nodes, code, session, tooltip>>

NextValidate == ValidateSettings

SpecValidate == InitValidate /\ [][NextValidate]_vars

----------------------------------------------------------------------------
(* One page: the content script is injected again and again *)

MaxInstances == 4

\* the longest catalog loadCourseData finds
MaxCourses == 2

InitPage ==
  /\ pc = "init"
  /\ \E chromeRuntime \in BOOLEAN : \E popupPage \in BOOLEAN :
       session = [chromeRuntime |-> chromeRuntime, popupPage |-> popupPage,
                  readyState |-> "loading", waiting |-> 0,
                  caltechExtensionInitialized |-> FALSE, instances |-> <<>>,
                  loads |-> 0, tooltips |-> 0, listeners |-> 0, processings |-> 0,
                  observers |-> 0]
  /\ catalog = <<>>
  /\ text = <<>>
  /\ allMatches = <<>>
  /\ validMatches = <<>>
  /\ nodes = <<>>
  /\ code = <<>>
  /\ result = null
  /\ tooltip = NoTooltip

\* the script runs on the page: it constructs an instance at once, or on
\* DOMContentLoaded while the document is loading
Inject ==
  /\ pc = "init"
  /\ Len(session.instances) + session.waiting < MaxInstances
  /\ session' = IF session.readyState = "loading"
                THEN [session EXCEPT !.waiting = @ + 1]
                ELSE construct(session)
  /\ UNCHANGED <<pc, catalog, text, allMatches, validMatches, nodes, code, result, tooltip>>

\* the document has been parsed: the listeners of the scripts run one after
\* the other
DOMContentLoaded ==
  /\ pc = "init"
  /\ session.readyState = "loading"
  /\ session' = constructTimes([session EXCEPT !.readyState = "interactive", !.waiting = 0],
                               session.waiting)
  /\ UNCHANGED <<pc, catalog, text, allMatches, validMatches, nodes, code, result, tooltip>>

\* Promise.all of loadSettings and loadCourseData settles
LoadsSettle ==
  \E i \in DOMAIN session.instances : \E courses \in 0..MaxCourses : \E extensionEnabled \in BOOLEAN :
    /\ pc = "init"
    /\ session.instances[i].at = "loading"
    /\ session' = initLoaded(session, i, courses, extensionEnabled)
    /\ UNCHANGED <<pc, catalog, text, allMatches, validMatches, nodes, code, result, tooltip>>

\* processExistingContent settles
ProcessingSettles ==
  \E i \in DOMAIN session.instances : \E thrown \in BOOLEAN :
    /\ pc = "init"
    /\ session.instances[i].at = "processing"
    /\ session' = initProcessed(session, i, thrown)
    /\ UNCHANGED <<pc, catalog, text, allMatches, validMatches, nodes, code, result, tooltip>>

\* SETTINGS_UPDATED reaches the instances that have set up their message
\* listener: each takes the new value of extensionEnabled
SettingsMessage ==
  \E extensionEnabled \in BOOLEAN :
    /\ pc = "init"
    /\ session.listeners > 0
    /\ session' = [session EXCEPT !.instances =
                     [i \in DOMAIN @ |->
                        IF @[i].at \in {"processing", "disabled", "ready", "failed"}
                        THEN [@[i] EXCEPT !.extensionEnabled = extensionEnabled]
                        ELSE @[i]]]
    /\ UNCHANGED <<pc, catalog, text, allMatches, validMatches, nodes, code, result, tooltip>>

NextPage == Inject \/ DOMContentLoaded \/ LoadsSettle \/ ProcessingSettles \/ SettingsMessage

SpecPage == InitPage /\ [][NextPage]_vars

----------------------------------------------------------------------------
(* Course codes followed by an English word *)

\* a course code, whitespace, a lowercase word, and what follows the word
WordParts ==
  [code : {<<"A", "P", "h", " ", "2", "0", "0">>, <<"M", "a", " ", "1">>},
   gap : {<<" ">>, <<" ", " ">>},
   word : {<<"d", "o">>, <<"i", "s">>, <<"t", "h", "e">>, <<"a", "n", "d">>, <<"c", "o", "v", "e", "r", "s">>},
   tail : {<<>>, <<" ", "i", "t">>, <<" ", "a", "n", "d", " ", "m", "o", "r", "e">>, <<".">>, <<"\n">>}]

InitWord ==
  /\ pc = "word"
  /\ code \in WordParts
  /\ text = code.code \o code.gap \o code.word \o code.tail
  /\ catalog = <<>>
  /\ allMatches = <<>>
  /\ validMatches = <<>>
  /\ nodes = <<>>
  /\ result = null
  /\ session = NoSession
  /\ tooltip = NoTooltip

DetectCourseInText ==
  /\ pc = "word"
  /\ pc' = "detected"
  /\ allMatches' = detectCourseInText(text, catalog)
  /\ UNCHANGED <<catalog, text, validMatches, nodes, code, result, session, tooltip>>

NextWord == DetectCourseInText

SpecWord == InitWord /\ [][NextWord]_vars

----------------------------------------------------------------------------
(* The synchronous detector applied to compound course codes *)

\* a compound code: prefixes, whitespace, numbers, letters, and what surrounds it
SyncParts ==
  [lead : {<<>>, <<"S", "e", "e", " ">>},
   prefixes : {<<"A", "P", "h", "/", "E", "E">>, <<"C", "S", "/", "M", "A">>, <<"A", "C", "M">>},
   gap : {<<" ">>, <<>>},
   numbers : {<<"2", "3", "/", "2", "4">>, <<"6", "/", "1", "0", "6">>, <<"9", "5", "/", "1", "0", "0">>, <<"1", "/", "2">>, <<"2", "3">>},
   letters : {<<>>, <<"a">>, <<" ", "a", "b">>},
   tail : {<<>>, <<".">>}]

\* a catalog that lists compound codes as single courses
CompoundCatalog ==
  << [course_code_original |-> <<"A", "P", "h", "/", "E", "E", " ", "2", "3", "/", "2", "4">>, name |-> <<"O", "p", "t", "i", "c", "s">>],
     [course_code_original |-> <<"A", "C", "M", " ", "9", "5", "/", "1", "0", "0", " ", "a", "b">>, name |-> <<"M", "e", "t", "h", "o", "d", "s">>] >>

SyncCatalogs == {<<>>, ScenarioCatalog, CompoundCatalog}

InitSync ==
  /\ pc = "sync"
  /\ code \in SyncParts
  /\ text = code.lead \o code.prefixes \o code.gap \o code.numbers \o code.letters \o code.tail
  /\ catalog \in SyncCatalogs
  /\ allMatches = <<>>
  /\ validMatches = <<>>
  /\ nodes = <<>>
  /\ result = null
  /\ session = NoSession
  /\ tooltip = NoTooltip

DetectCourseInTextSync ==
  /\ pc = "sync"
  /\ pc' = "detected"
  /\ allMatches' = detectCourseInTextSync(text)
  /\ UNCHANGED <<catalog, text, validMatches, nodes, code, result, session, tooltip>>

NextSync == DetectCourseInTextSync

SpecSync == InitSync /\ [][NextSync]_vars

----------------------------------------------------------------------------
(* The detector applied to compound course codes with and without letters *)

\* a catalog with the single courses of compound codes, with and without letters
LetteredCatalog ==
  << [course_code_original |-> <<"C", "S", " ", "1", " ", "a", "b">>, name |-> <<"P", "r", "o", "g", "r", "a", "m", "m", "i", "n", "g">>],
     [course_code_original |-> <<"C", "S", " ", "2", " ", "a", "b">>, name |-> <<"D", "a", "t", "a">>],
     [course_code_original |-> <<"A", "C", "M", " ", "9", "5", " ", "a">>, name |-> <<"M", "e", "t", "h", "o", "d", "s", " ", "I">>],
     [course_code_original |-> <<"A", "C", "M", " ", "1", "0", "0", " ", "a">>, name |-> <<"M", "e", "t", "h", "o", "d", "s", " ", "I", "I">>],
     [course_code_original |-> <<"C", "S", " ", "2", "3">>, name |-> <<"G", "r", "a", "p", "h", "s">>],
     [course_code_original |-> <<"C", "S", " ", "2", "4">>, name |-> <<"L", "o", "g", "i", "c">>] >>

CompoundCatalogs == {ScenarioCatalog, CompoundCatalog, LetteredCatalog}

InitCompound ==
  /\ pc = "compound"
  /\ code \in SyncParts
  /\ text = code.lead \o code.prefixes \o code.gap \o code.numbers \o code.letters \o code.tail
  /\ catalog \in CompoundCatalogs
  /\ allMatches = <<>>
  /\ validMatches = <<>>
  /\ nodes = <<>>
  /\ result = null
  /\ session = NoSession
  /\ tooltip = NoTooltip

\* detectCourseInText on the text of a text node
DetectCompound ==
  /\ pc = "compound"
  /\ pc' = "detected"
  /\ allMatches' = detectCourseInText(text, catalog)
  /\ UNCHANGED <<catalog, text, validMatches, nodes, code, result, session, tooltip>>

NextCompound == DetectCompound

SpecCompound == InitCompound /\ [][NextCompound]_vars

----------------------------------------------------------------------------
(* A page with highlights: clicks, keys, the mouse and the timers *)

InitTooltip ==
  /\ pc = "page"
  /\ catalog = TooltipCatalog
  /\ tooltip = NoTooltip @@ [sectionCycleState |-> [h \in Highlights |-> -1],
                            rangeIndex |-> [h \in Highlights |-> 0],
                            courseData |-> PageCourses,
                            extensionEnabled |-> TRUE,
                            attached |-> {h \in Highlights : h.generation = 1},
                            textNodes |-> {}, processing |-> {},
                            made |-> [p \in Places |-> 1],
                            awaiting |-> {}, restoring |-> {}, recent |-> {},
                            event |-> [type |-> "load"]]
  /\ text = <<>>
  /\ allMatches = <<>>
  /\ validMatches = <<>>
  /\ nodes = <<>>
  /\ code = <<>>
  /\ result = null
  /\ session = NoSession

\* a click: the listener of the highlight stops the propagation, any other
\* click reaches the listener of the document
Click ==
  \E target \in tooltip.attached \cup (Targets \ Highlights) :
    /\ pc = "page"
    /\ tooltip' = [(IF target.highlight THEN clickListener(tooltip, target)
                                        ELSE handleGlobalClick(tooltip, target))
                   EXCEPT !.event = [type |-> "click", target |-> target]]
    /\ UNCHANGED <<pc, catalog, text, allMatches, validMatches, nodes, code, result, session>>

\* a key is pressed while a highlight or the page body has the focus; the
\* listener reads the target for Space and Enter only
KeyDown ==
  \E key \in Keys :
  \E target \in IF key \in {" ", "Enter"}
                THEN tooltip.attached \cup {t \in Targets : ~t.highlight /\ ~t.inTooltip}
                ELSE {t \in Targets : ~t.highlight /\ ~t.inTooltip} :
    /\ pc = "page"
    /\ tooltip' = [handleGlobalKeyDown(tooltip, key, target)
                   EXCEPT !.event = [type |-> "keydown", key |-> key]]
    /\ UNCHANGED <<pc, catalog, text, allMatches, validMatches, nodes, code, result, session>>

\* findSectionCourses answers a click listener that waits for it
SectionsFound ==
  \E target \in tooltip.awaiting :
    /\ tooltip' = [sectionsFound([tooltip EXCEPT !.awaiting = @ \ {target}], target)
                   EXCEPT !.event = [type |-> "sections"]]
    /\ UNCHANGED <<pc, catalog, text, allMatches, validMatches, nodes, code, result, session>>

\* findCourseMatch answers unpinTooltip: the element gets the course of its
\* data-course-code back
CourseRestored ==
  \E target \in tooltip.restoring :
    /\ tooltip' = [tooltip EXCEPT !.restoring = @ \ {target},
                                  !.courseData[target] =
                                     IF contains(tooltip, target) THEN PageCourses[target] ELSE @,
                                  !.event = [type |-> "restored"]]
    /\ UNCHANGED <<pc, catalog, text, allMatches, validMatches, nodes, code, result, session>>

MouseEnter ==
  \E target \in tooltip.attached :
    /\ pc = "page"
    /\ tooltip' = [clearTimeouts(tooltip)
                   EXCEPT !.hoverTimeout = IF ~tooltip.isPinned \/ tooltip.pinnedElement # target
                                           THEN target ELSE null,
                          !.event = [type |-> "mouseenter"]]
    /\ UNCHANGED <<pc, catalog, text, allMatches, validMatches, nodes, code, result, session>>

MouseLeave ==
  \E target \in tooltip.attached :
    /\ pc = "page"
    /\ tooltip' = [clearTimeouts(tooltip)
                   EXCEPT !.hideTimeout = target,
                          !.event = [type |-> "mouseleave"]]
    /\ UNCHANGED <<pc, catalog, text, allMatches, validMatches, nodes, code, result, session>>

\* HOVER_DELAY has passed: showHoverTooltip
HoverDelayElapsed ==
  /\ pc = "page"
  /\ tooltip.hoverTimeout # null
  /\ tooltip' = [showTooltip(tooltip, tooltip.hoverTimeout, FALSE)
                 EXCEPT !.hoverTimeout = null,
                        !.event = [type |-> "timeout"]]
  /\ UNCHANGED <<pc, catalog, text, allMatches, validMatches, nodes, code, result, session>>

\* HIDE_DELAY has passed: handleMouseLeave
HideDelayElapsed ==
  /\ pc = "page"
  /\ tooltip.hideTimeout # null
  /\ tooltip' = [handleMouseLeave(tooltip, tooltip.hideTimeout)
                 EXCEPT !.hideTimeout = null,
                        !.event = [type |-> "timeout"]]
  /\ UNCHANGED <<pc, catalog, text, allMatches, validMatches, nodes, code, result, session>>

\* 150 ms have passed since the range highlights accepted a click
DebounceElapsed ==
  /\ pc = "page"
  /\ tooltip.recent # {}
  /\ tooltip' = [tooltip EXCEPT !.recent = {}, !.event = [type |-> "time"]]
  /\ UNCHANGED <<pc, catalog, text, allMatches, validMatches, nodes, code, result, session>>

NextTooltip ==
  \/ Click
  \/ KeyDown
  \/ SectionsFound
  \/ CourseRestored
  \/ MouseEnter
  \/ MouseLeave
  \/ HoverDelayElapsed
  \/ HideDelayElapsed
  \/ DebounceElapsed

SpecTooltip == InitTooltip /\ [][NextTooltip]_vars

----------------------------------------------------------------------------
(* A page whose text is being processed while the settings change *)

\* the content script has started on a page with one text node that holds a
\* course code: nothing is highlighted yet
InitSettings ==
  /\ pc = "page"
  /\ catalog = TooltipCatalog
  /\ tooltip = NoTooltip @@ [sectionCycleState |-> [h \in Highlights |-> -1],
                            rangeIndex |-> [h \in Highlights |-> 0],
                            courseData |-> PageCourses,
                            extensionEnabled |-> TRUE,
                            attached |-> {},
                            textNodes |-> {"EC 121 abc"}, processing |-> {},
                            made |-> [p \in Places |-> 0],
                            awaiting |-> {}, restoring |-> {}, recent |-> {},
                            event |-> [type |-> "load"]]
  /\ text = <<>>
  /\ allMatches = <<>>
  /\ validMatches = <<>>
  /\ nodes = <<>>
  /\ code = <<>>
  /\ result = null
  /\ session = NoSession

\* the SETTINGS_UPDATED message
SettingsUpdated ==
  \E extensionEnabled \in BOOLEAN :
    /\ pc = "page"
    /\ tooltip' = [handleSettingsUpdate(tooltip, extensionEnabled)
                   EXCEPT !.event = [type |-> "settings", extensionEnabled |-> extensionEnabled]]
    /\ UNCHANGED <<pc, catalog, text, allMatches, validMatches, nodes, code, result, session>>

\* processTextNode is called for a text node (by processExistingContent or by
\* the mutation observer) and runs up to its first await; it returns at once
\* while the extension is disabled
StartProcessing ==
  \E p \in tooltip.textNodes \ tooltip.processing :
    /\ pc = "page"
    /\ tooltip.extensionEnabled
    /\ tooltip.made[p] < MaxGenerations
    /\ tooltip' = [tooltip EXCEPT !.processing = @ \cup {p}, !.event = [type |-> "process"]]
    /\ UNCHANGED <<pc, catalog, text, allMatches, validMatches, nodes, code, result, session>>

\* the lookups of processTextNode have answered: the text node, still in the
\* document, is replaced by a new highlight element
FinishProcessing ==
  \E p \in tooltip.processing :
    /\ pc = "page"
    /\ tooltip' =
         [tooltip EXCEPT !.processing = @ \ {p},
                         !.textNodes = @ \ {p},
                         !.made[p] = @ + 1,
                         !.attached = @ \cup {h \in Highlights :
                                                h.id = p /\ h.generation = tooltip.made[p] + 1},
                         !.event = [type |-> "highlighted"]]
    /\ UNCHANGED <<pc, catalog, text, allMatches, validMatches, nodes, code, result, session>>

NextSettings ==
  \/ Click
  \/ SectionsFound
  \/ CourseRestored
  \/ SettingsUpdated
  \/ StartProcessing
  \/ FinishProcessing

SpecSettings == InitSettings /\ [][NextSettings]_vars

----------------------------------------------------------------------------
(* A page with highlights: the pin, the mouse, the timers and the settings *)

NextHover ==
  \/ Click
  \/ MouseEnter
  \/ MouseLeave
  \/ HoverDelayElapsed
  \/ HideDelayElapsed
  \/ SettingsUpdated

SpecHover == InitTooltip /\ [][NextHover]_vars

----------------------------------------------------------------------------
(* Properties of the scanner and of the validated matches (Spec) *)

scanned == pc \in {"detected", "done"}

resolves(courseCode) == findCourseMatch(courseCode, catalog) # null

isStandard(c) == ~c.isRange /\ ~c.isShorthand

overlap(c, d) == c.index < d.index + d.length /\ d.index < c.index + c.length

\* the Phase 3 matches of the text with a compound number group that the scanner
\* hands to expandCompoundCourseCode
compoundMatches ==
  SelectSeq(execAll("course", text, 0),
            LAMBDA m : /\ includes(m.numbers, <<"/">>)
                       /\ \A i \in 1..Len(allMatches) :
                            allMatches[i].isShorthand =>
                              ~(m.index < allMatches[i].index + allMatches[i].length
                                /\ m.end > allMatches[i].index))

\* the candidates emitted for the Phase 3 match m
candidatesOf(m) ==
  SelectSeq(allMatches, LAMBDA c : isStandard(c) /\ c.index >= m.index /\ c.index < m.end)

fullCode(m) == m.prefixes \o <<" ">> \o m.numbers \o m.letters

individualCode(m, i) == m.prefixes \o <<" ">> \o split(m.numbers, "/")[i] \o m.letters

partCount(m) == Len(split(m.numbers, "/"))

allIndividualsResolve(m) == \A i \in 1..partCount(m) : resolves(individualCode(m, i))

isWholeMatch(cands, m) ==
  /\ Len(cands) = 1
  /\ cands[1].index = m.index
  /\ cands[1].length = m.end - m.index

\* offset in the text of the '/' in front of the i-th number of m (i >= 2)
RECURSIVE slashOffset(_, _)
slashOffset(m, i) ==
  IF i = 2
  THEN RunEnd(text, m.index + Len(m.prefixes), White) + Len(split(m.numbers, "/")[1])
  ELSE slashOffset(m, i - 1) + 1 + Len(split(m.numbers, "/")[i - 1])

\* C1: the validated matches of a text, sorted by start index, do not overlap:
\* each one ends at or before the start of the next.
C1_ValidatedMatchesDisjoint ==
  pc = "done" =>
    \A i \in 1..(Len(validMatches) - 1) :
      validMatches[i].match.index + validMatches[i].match.length
        <= validMatches[i + 1].match.index

\* C2: a compound Phase 3 match whose full code does not resolve and one of
\* whose individual codes does not resolve yields exactly one candidate, and it
\* spans the whole match.
C2_CompoundSafetyDefault ==
  scanned =>
    \A k \in 1..Len(compoundMatches) :
      LET m == compoundMatches[k]
      IN  (~resolves(fullCode(m)) /\ ~allIndividualsResolve(m))
            => isWholeMatch(candidatesOf(m), m)

C2_Witness ==
  /\ scanned
  /\ \E k \in 1..Len(compoundMatches) :
       LET m == compoundMatches[k]
       IN  /\ ~resolves(fullCode(m))
           /\ ~allIndividualsResolve(m)
           /\ \E i \in 1..partCount(m) : resolves(individualCode(m, i))
           /\ isWholeMatch(candidatesOf(m), m)

\* C3: a compound Phase 3 match whose full code resolves yields exactly one
\* candidate covering the whole match, not expanded, also when every individual
\* code resolves.
C3_FullCompoundTakesPrecedence ==
  scanned =>
    \A k \in 1..Len(compoundMatches) :
      LET m == compoundMatches[k]
      IN  resolves(fullCode(m)) =>
            /\ isWholeMatch(candidatesOf(m), m)
            /\ ~candidatesOf(m)[1].isExpanded

C3_Witness ==
  /\ scanned
  /\ \E k \in 1..Len(compoundMatches) :
       LET m == compoundMatches[k]
       IN  /\ resolves(fullCode(m))
           /\ allIndividualsResolve(m)
           /\ isWholeMatch(candidatesOf(m), m)

\* C4: a compound Phase 3 match with k >= 2 numbers whose full code does not
\* resolve and all of whose individual codes resolve yields exactly k
\* candidates; the i-th (i >= 2) starts at the '/' in front of its own number,
\* covers just "/Ni", is displayed as "/NiL" and carries the code "P NiL".
C4_ExpandedPartsSitOnTheirNumbers ==
  scanned =>
    \A k \in 1..Len(compoundMatches) :
      LET m     == compoundMatches[k]
          parts == split(m.numbers, "/")
          cands == candidatesOf(m)
      IN  (~resolves(fullCode(m)) /\ allIndividualsResolve(m)) =>
            /\ Len(cands) = Len(parts)
            /\ \A i \in 2..Len(parts) :
                 /\ cands[i].index = slashOffset(m, i)
                 /\ cands[i].length = 1 + Len(parts[i])
                 /\ cands[i].displayText = <<"/">> \o parts[i] \o m.letters
                 /\ cands[i].fullMatch = m.prefixes \o <<" ">> \o parts[i] \o m.letters

hasCourse(courseCode) ==
  \E i \in 1..Len(catalog) : catalog[i].course_code_original = courseCode

AphEE2324 == <<"A", "P", "h", "/", "E", "E", " ", "2", "3", "/", "2", "4">>

\* C6: with "APh 23" and "EE 24" in the catalog and no entry for the joint
\* code, the text "APh/EE 23/24" yields two matches, displayed "APh/EE 23" and
\* "/24", resolved to "APh 23" and "EE 24".
C6_AphEEExpandsToTwoCourses ==
  (/\ pc = "done"
   /\ text = AphEE2324
   /\ hasCourse(<<"A", "P", "h", " ", "2", "3">>)
   /\ hasCourse(<<"E", "E", " ", "2", "4">>)
   /\ ~hasCourse(AphEE2324)) =>
    /\ Len(validMatches) = 2
    /\ nodes[1].textContent = <<"A", "P", "h", "/", "E", "E", " ", "2", "3">>
    /\ nodes[2].textContent = <<"/", "2", "4">>
    /\ validMatches[1].course.course_code_original = <<"A", "P", "h", " ", "2", "3">>
    /\ validMatches[2].course.course_code_original = <<"E", "E", " ", "2", "4">>

\* C7: with "CS 156" in the catalog, the text "Take CS 156 next term." yields
\* exactly one validated match, with code "CS 156" and the "CS 156" course.
C7_TakeCS156 ==
  (/\ pc = "done"
   /\ text = <<"T", "a", "k", "e", " ", "C", "S", " ", "1", "5", "6", " ", "n", "e", "x", "t", " ", "t", "e", "r", "m", ".">>
   /\ hasCourse(<<"C", "S", " ", "1", "5", "6">>)) =>
    /\ Len(validMatches) = 1
    /\ validMatches[1].match.fullMatch = <<"C", "S", " ", "1", "5", "6">>
    /\ validMatches[1].course.course_code_original = <<"C", "S", " ", "1", "5", "6">>

\* C8: no Standard/compound (Phase 3) candidate overlaps a Range (Phase 1) or a
\* Shorthand (Phase 2) candidate of the same scan.
C8_StandardAvoidsRangeAndShorthand ==
  scanned =>
    \A i, j \in 1..Len(allMatches) :
      (isStandard(allMatches[i]) /\ ~isStandard(allMatches[j]))
        => ~overlap(allMatches[i], allMatches[j])

----------------------------------------------------------------------------
(* Properties of the matcher (SpecMatch) and of the lookup (SpecFind) *)

\* the '/'-separated prefix tokens of a code: the leading letters and slashes
prefixTokens(c) ==
  LET u == trim(toUpperCase(c))
      toks == split(Slice(u, 0, RunEnd(u, 0, Letter \cup {"/"})), "/")
  IN  {toks[i] : i \in 1..Len(toks)}

\* C5: doesCourseMatch(course, [v]) is true only if every '/'-separated prefix
\* token of v is one of the course's prefix tokens.
C5_CrossListingPrefixLaw ==
  (pc = "matched" /\ result = TRUE) =>
    prefixTokens(code) \subseteq prefixTokens(catalog[1].course_code_original)

isSynthetic(r) == r # null /\ "is_synthetic" \in DOMAIN r

\* C9: a synthetic course aggregates at least two different catalog entries.
C9_SyntheticNeedsTwoDistinctCourses ==
  (pc \in {"found", "composed"} /\ isSynthetic(result)) =>
    Cardinality({result.section_courses[i] : i \in 1..Len(result.section_courses)}) >= 2

\* the catalog entry a single section letter of the code resolves to (0: none)
letterEntry(c, l) ==
  findIndex(generateCourseCodeVariations(c.department \o <<" ">> \o c.number \o <<" ">> \o <<l>>),
            catalog)

RECURSIVE foundInLetterOrder(_, _)
foundInLetterOrder(c, letters) ==
  IF letters = <<>> THEN <<>>
  ELSE (IF letterEntry(c, Head(letters)) = 0 THEN <<>>
        ELSE <<catalog[letterEntry(c, Head(letters))]>>)
         \o foundInLetterOrder(c, Tail(letters))

matchesDirectly(c) == findIndex(generateCourseCodeVariations(codeOf(c)), catalog) # 0

singleNumber(c) == \A i \in 1..Len(c.number) : c.number[i] \in Digit

composedCase ==
  /\ pc = "found"
  /\ singleNumber(code)
  /\ Len(code.letters) >= 2
  /\ ~matchesDirectly(code)
  /\ Len(foundInLetterOrder(code, code.letters)) >= 2

C11_ComposerReturnsNull ==
  (/\ pc = "composed"
   /\ \/ Len(code.letters) <= 1
      \/ Len(foundInLetterOrder(code, code.letters)) < 2)
    => result = null

\* two letters or more, and exactly one of them resolves on its own
C11_Witness ==
  /\ pc = "composed"
  /\ singleNumber(code)
  /\ Len(code.letters) >= 2
  /\ Len(foundInLetterOrder(code, code.letters)) = 1
  /\ result = null

\* the characters of a string
charsOf(w) == {w[i] : i \in 1..Len(w)}

\* C12: the letter check returns true exactly when every character of the input
\* letters occurs in the course letters, whatever the order; so empty input
\* letters always match and non-empty input letters never match empty course
\* letters.
C12_LetterSubsetLaw ==
  (pc \in {"compatible", "subset"}) =>
    /\ result = (charsOf(code.inputLetters) \subseteq charsOf(code.courseLetters))
    /\ (code.inputLetters = <<>> => result = TRUE)
    /\ (code.inputLetters # <<>> /\ code.courseLetters = <<>> => result = FALSE)

\* letters in another order than the course's are accepted
C12_Witness ==
  /\ pc = "compatible"
  /\ code.inputLetters = <<"C", "A">>
  /\ code.courseLetters = <<"A", "B", "C">>
  /\ result = TRUE

\* the codes "<prefix> n" for n = startNum, ..., endNum
codesOfRange(prefix, startNum, endNum) ==
  [k \in 1..(endNum - startNum + 1) |-> prefix \o <<" ">> \o numToString(startNum + k - 1)]

\* the matches of rangePattern in the text
rangeMatches == execAll("range", text, 0)

\* C13: every range candidate has start < end and end - start <= 20, spans the
\* whole matched text and carries exactly the codes "<prefix> n" for n from
\* start to end in ascending order (at most 21 of them); a match with
\* start >= end or end - start > 20 gives no candidate.
C13_RangeCandidates ==
  (pc = "ranges") =>
    /\ \A i \in 1..Len(allMatches) :
         \E c \in {allMatches[i]} :
           /\ c.isRange
           /\ c.startNum < c.endNum
           /\ c.endNum - c.startNum <= 20
           /\ \E k \in 1..Len(rangeMatches) :
                /\ rangeMatches[k].index = c.index
                /\ rangeMatches[k].end = c.index + c.length
                /\ rangeMatches[k].prefixes = c.department
                /\ parseInt(rangeMatches[k].first) = c.startNum
                /\ parseInt(rangeMatches[k].second) = c.endNum
           /\ c.fullMatch = Slice(text, c.index, c.index + c.length)
           /\ c.rangeCourses = codesOfRange(c.department, c.startNum, c.endNum)
           /\ Len(c.rangeCourses) <= 21
    /\ \A k \in 1..Len(rangeMatches) :
         (\/ parseInt(rangeMatches[k].first) >= parseInt(rangeMatches[k].second)
          \/ parseInt(rangeMatches[k].second) - parseInt(rangeMatches[k].first) > 20)
           => \A i \in 1..Len(allMatches) : allMatches[i].index # rangeMatches[k].index

\* a range of the largest accepted size: 21 codes
C13_Witness ==
  /\ pc = "ranges"
  /\ Len(allMatches) = 1
  /\ allMatches[1].endNum - allMatches[1].startNum = 20
  /\ Len(allMatches[1].rangeCourses) = 21

\* the generated codes of a range candidate that resolve, in generation order
resolvedCodes(c) == SelectSeq(c.rangeCourses, resolves)

\* the validated matches made from the range candidate c
validatedRanges(c) ==
  {k \in 1..Len(validMatches) :
     validMatches[k].match.isRange /\ validMatches[k].match.index = c.index}

\* the highlighted spans of the page that show a range starting with course
rangeSpans(c, course) ==
  {k \in 1..Len(nodes) :
     /\ nodes[k].type = "span"
     /\ nodes[k].isRange
     /\ nodes[k].textContent = c.originalRangeMatch
     /\ nodes[k].courseData = course
     /\ nodes[k].rangeIndex = 0}

\* C14: the validated match of a range candidate carries exactly the generated
\* codes that resolve in the catalog, in ascending generation order; it exists
\* if and only if that list is not empty; the course displayed first is the
\* first entry of the list.
C14_ValidatedRangeCarriesResolvedCodes ==
  (pc = "done" /\ allMatches # <<>>) =>
    \A i \in 1..Len(allMatches) :
      allMatches[i].isRange =>
        \E c \in {allMatches[i]} : \E codes \in {resolvedCodes(c)} :
          /\ (codes = <<>>) <=> (validatedRanges(c) = {})
          /\ \A k \in validatedRanges(c) :
               \E v \in {validMatches[k]} :
                 /\ [j \in 1..Len(v.match.validRangeCourses) |->
                       v.match.validRangeCourses[j].courseCode] = codes
                 /\ \A j \in 1..Len(codes) :
                      v.match.validRangeCourses[j].course = findCourseMatch(codes[j], catalog)
                 /\ v.course = findCourseMatch(codes[1], catalog)
                 /\ v.match.currentRangeIndex = 0
                 /\ rangeSpans(c, v.course) # {}
          /\ Cardinality(validatedRanges(c)) <= 1

\* a range of which several codes resolve and some do not
C14_Witness ==
  /\ pc = "done"
  /\ \E k \in 1..Len(validMatches) :
       /\ validMatches[k].match.isRange
       /\ Len(validMatches[k].match.validRangeCourses) >= 2
       /\ Len(validMatches[k].match.validRangeCourses) < Len(validMatches[k].match.rangeCourses)
       /\ validMatches[k].course = validMatches[k].match.validRangeCourses[1].course

\* offset in the text of the j-th token of the list
RECURSIVE tokenStart(_, _)
tokenStart(c, j) ==
  IF j = 1 THEN Len(c.lead) + Len(c.prefix) + Len(c.gap)
  ELSE tokenStart(c, j - 1) + Len(c.tokens[j - 1]) + Len(c.seps[j - 1])

\* the tokens of the list that lie inside the shorthand match
tokensInMatch(c, matchEnd) ==
  {j \in 1..Len(c.tokens) : tokenStart(c, j) + Len(c.tokens[j]) <= matchEnd}

upperCode == trim(toUpperCase(catalog[1].course_code_original))

\* the variant of the matcher's input, as doesCourseMatch reads it
upperVariant == trim(toUpperCase(code))

\* the catalog code has the compound or the simple cross-listed shape
hasCrossListedShape ==
  parseCode(upperCode, complexShape).ok \/ parseCode(upperCode, simpleShape).ok

\* the direct-equality rules of doesCourseMatch
equalsDirectly ==
  \/ upperCode = upperVariant
  \/ ReplaceRuns(upperCode, 0, White \cup {"/"}, <<" ">>) = upperVariant
  \/ ReplaceRuns(upperCode, 0, White \cup {"/"}, <<"/">>) = upperVariant
  \/ ReplaceRuns(upperCode, 0, White \cup {"/"}, <<>>)
       = ReplaceRuns(upperVariant, 0, White \cup {"/"}, <<>>)

\* C16: for a catalog code that contains '/' and has the compound or the simple
\* cross-listed shape, a variant that fails the direct-equality rules and the
\* cross-listed rules is not accepted: the '/'-separated segments of the code
\* are not tried.
C16_FallbackOnlyForOtherShapes ==
  (/\ pc = "matched"
   /\ includes(upperCode, <<"/">>)
   /\ hasCrossListedShape
   /\ ~equalsDirectly
   /\ ~matchComplexForm(upperCode, upperVariant)
   /\ ~matchSimpleForm(upperCode, upperVariant))
    => result = FALSE

C18_CatalogFetchedAtMostOnce ==
  (pc = "session") => session.fetches <= 1

\* C18 amended: a request fetches the catalog file only when it finds no
\* cached catalog that has not expired, and then once; a request that finds
\* one is answered from it without a fetch.
C18_FetchOnlyWithoutCachedCatalog ==
  [][(pc = "session") =>
       /\ session'.fetches \in {session.fetches, session.fetches + 1}
       /\ (session'.fetches > session.fetches) => session.cache = "empty"
       /\ \A r \in 1..MaxRequests :
            (/\ session.cache = "fresh"
             /\ session.requests[r].at = "unsent"
             /\ session'.requests[r].at # "unsent"
             /\ session'.requests[r].success)
              => /\ session'.requests[r].at = "answered"
                 /\ session'.requests[r].hit
                 /\ session'.fetches = session.fetches]_vars

\* after one fetch, a later request is answered from the cached catalog
C18_Witness ==
  /\ pc = "session"
  /\ session.fetches = 1
  /\ session.cache = "fresh"
  /\ \E r \in 1..MaxRequests :
       session.requests[r].at = "answered" /\ session.requests[r].hit

\* C19: when a course code is followed by whitespace and a lowercase word, no
\* candidate of the standard pattern has that word in its letters group.
C19_WordNotTakenAsLetters ==
  (pc = "detected") =>
    \A i \in 1..Len(allMatches) : ~includes(allMatches[i].letters, code.word)

\* the step handles a click on the target t
clickOn(t) == tooltip'.event = [type |-> "click", target |-> t]

\* the state the claim names: nothing pinned and the tooltip hidden
unpinned(s) == ~s.isPinned /\ s.pinnedElement = null /\ ~s.visible

\* what C20 says of a pinned tooltip: a click outside every highlight and
\* outside the tooltip, or the ESC key, leaves it unpinned and hidden
unpinsOutside ==
  tooltip.isPinned =>
    /\ \A t \in Targets \ Highlights :
         (~t.inTooltip /\ clickOn(t)) => unpinned(tooltip')
    /\ (tooltip'.event.type = "keydown" /\ tooltip'.event.key = "Escape")
         => unpinned(tooltip')

\* C20 as stated: a click on a highlight that is not pinned pins the tooltip
\* to it; while a tooltip is pinned, a click outside every highlight and
\* outside the tooltip, or ESC, leaves isPinned = false, pinnedElement = null
\* and the tooltip hidden.
C20_ClickPinsOutsideUnpins ==
  [][(pc = "page") =>
       /\ \A h \in Highlights :
            (tooltip.pinnedElement # h /\ clickOn(h))
              => tooltip'.isPinned /\ tooltip'.pinnedElement = h
       /\ unpinsOutside]_vars

\* C20 amended: as stated, except that a range highlight drops a click that
\* comes less than 150 ms after the last click it accepted.
C20_ClickPinsUnlessDebounced ==
  [][(pc = "page") =>
       /\ \A h \in Highlights :
            (tooltip.pinnedElement # h /\ clickOn(h) /\ ~(h.isRange /\ h \in tooltip.recent))
              => tooltip'.isPinned /\ tooltip'.pinnedElement = h /\ tooltip'.visible
       /\ unpinsOutside]_vars

\* a click has just pinned the tooltip to the highlight of a code with two
\* sections: it is pinned and shown, and no section cycle has begun
C20_Witness ==
  /\ pc = "page"
  /\ \E h \in Highlights :
       /\ Len(PageSections[h]) >= 2 /\ ~h.isRange
       /\ tooltip.event = [type |-> "click", target |-> h]
       /\ tooltip.isPinned /\ tooltip.pinnedElement = h /\ tooltip.visible
       /\ h \notin tooltip.awaiting
       /\ tooltip.sectionCycleState[h] = -1

\* the tooltip is pinned to h and shows the k-th section of its code
showsSection(s, h, k) ==
  /\ s.isPinned /\ s.pinnedElement = h /\ s.visible
  /\ s.shown = PageSections[h][k].data
  /\ s.sectionCycleState[h] = k - 1

\* the sections of a code come in the order of its letters
inLetterOrder(h) ==
  \A k \in 1..Len(PageSections[h]) :
    /\ PageSections[h][k].code = Slice(PageCodes[h], 0, Len(PageCodes[h]) - 4)
                                  \o <<" ", PageCodes[h][Len(PageCodes[h]) - 3 + k]>>
    /\ PageSections[h][k].data.course_code_original = PageSections[h][k].code

\* C21: on a regular highlight with n sections, clicks handled one after the
\* other: the first click pins; the second asks for the sections and, when
\* n >= 2, shows section 1, otherwise unpins; each further click shows the
\* next section in letter order, and the click after section n unpins.
C21_SectionCycling ==
  [][(pc = "page") =>
       \A h \in {x \in Highlights : ~x.isRange} :
         /\ (Len(PageSections[h]) >= 2) => inLetterOrder(h)
         /\ (clickOn(h) /\ tooltip.pinnedElement # h)
              => /\ tooltip'.isPinned /\ tooltip'.pinnedElement = h /\ tooltip'.visible
                 /\ tooltip'.sectionCycleState[h] = -1
         /\ (clickOn(h) /\ tooltip.pinnedElement = h /\ tooltip.awaiting = {}
               /\ tooltip.sectionCycleState[h] = -1)
              => /\ tooltip'.awaiting = {h}
                 /\ tooltip'.isPinned /\ tooltip'.pinnedElement = h
         /\ (tooltip'.event.type = "sections" /\ tooltip.awaiting = {h}
               /\ tooltip.pinnedElement = h /\ tooltip.sectionCycleState[h] = -1)
              => IF Len(PageSections[h]) >= 2 THEN showsSection(tooltip', h, 1)
                 ELSE unpinned(tooltip')
         /\ \A k \in 1..Len(PageSections[h]) :
              (clickOn(h) /\ tooltip.pinnedElement = h /\ tooltip.awaiting = {}
                /\ tooltip.sectionCycleState[h] = k - 1)
               => IF k < Len(PageSections[h]) THEN showsSection(tooltip', h, k + 1)
                  ELSE unpinned(tooltip')]_vars

\* the click after the pin and 3 more has brought up the third and last
\* section of "EC 121 abc"
C21_Witness ==
  /\ pc = "page"
  /\ \E h \in Highlights :
       /\ Len(PageSections[h]) = 3
       /\ tooltip.event = [type |-> "click", target |-> h]
       /\ showsSection(tooltip, h, 3)
       /\ tooltip.awaiting = {}

\* the tooltip is pinned to the range highlight r and shows its k-th course
showsRangeCourse(s, r, k) ==
  /\ s.isPinned /\ s.pinnedElement = r /\ s.visible
  /\ s.shown = rangeData(PageRangeCourses[r][k]).course
  /\ s.rangeIndex[r] = k - 1

\* C22: on a range highlight with m resolved courses, clicks at least 150 ms
\* apart: a click on the highlight when it is not pinned pins it and shows
\* course 1; a click when course k is shown shows course k + 1 while k < m and
\* unpins at k = m; data-range-index stays within 0..m-1, and every unpin of
\* the highlight leaves it 0.
C22_RangeCycling ==
  [][(pc = "page") =>
       \A r \in {x \in Highlights : x.isRange} :
         /\ tooltip'.rangeIndex[r] \in 0..(Len(PageRangeCourses[r]) - 1)
         /\ (clickOn(r) /\ r \notin tooltip.recent /\ tooltip.pinnedElement # r)
              => showsRangeCourse(tooltip', r, 1)
         /\ \A k \in 1..Len(PageRangeCourses[r]) :
              (clickOn(r) /\ r \notin tooltip.recent /\ tooltip.pinnedElement = r
                /\ tooltip.rangeIndex[r] = k - 1)
               => IF k < Len(PageRangeCourses[r]) THEN showsRangeCourse(tooltip', r, k + 1)
                  ELSE unpinned(tooltip') /\ tooltip'.rangeIndex[r] = 0
         /\ (tooltip.pinnedElement = r /\ ~tooltip'.isPinned) => tooltip'.rangeIndex[r] = 0]_vars

\* the second click on the range "EC 121-122" has brought up its second course
C22_Witness ==
  /\ pc = "page"
  /\ \E r \in Highlights :
       /\ r.isRange
       /\ Len(PageRangeCourses[r]) = 2
       /\ tooltip.event = [type |-> "click", target |-> r]
       /\ showsRangeCourse(tooltip, r, 2)
       /\ tooltip.shown # rangeData(PageRangeCourses[r][1]).course

\* C23: once the extension has been disabled by a settings update, the page
\* holds no course highlight for as long as it stays disabled.
C23_NoHighlightWhileDisabled ==
  (pc = "page" /\ ~tooltip.extensionEnabled) => tooltip.attached = {}

\* C26: whenever isPinned is true, pinnedElement is a highlight element that
\* is in the document.
C26_PinnedElementAttached ==
  (pc = "page" /\ tooltip.isPinned) =>
    tooltip.pinnedElement \in Highlights /\ contains(tooltip, tooltip.pinnedElement)

\* C27: a regular highlight that is not the pinned element and has no restore
\* pending carries in data-course-data the course first resolved for its
\* data-course-code, not a section shown while cycling.
C27_UnpinnedHighlightHasOriginalCourse ==
  (pc = "page") =>
    \A h \in {x \in tooltip.attached : ~x.isRange} :
      (tooltip.pinnedElement # h /\ h \notin tooltip.restoring)
        => tooltip.courseData[h] = PageCourses[h]

\* C24: in the synchronous detector a compound match is split into several
\* candidates only when the catalog resolves every individual code and does not
\* resolve the full compound code; closeness of the numbers alone causes no split.
C24_SyncSplitsOnlyByCatalog ==
  (pc = "detected") =>
    \A k \in 1..Len(compoundMatches) :
      LET m == compoundMatches[k]
      IN  Len(candidatesOf(m)) > 1 => (allIndividualsResolve(m) /\ ~resolves(fullCode(m)))

\* the Phase 3 matches that were expanded into several candidates
expandedMatches == SelectSeq(compoundMatches, LAMBDA m : Len(candidatesOf(m)) > 1)

\* C25: when a compound is expanded, the span of the first candidate starts at
\* the start of the match and ends at the end of the first number of the source
\* text, with and without letters; its length is positive and it ends at or
\* before the start of the second candidate.
C25_FirstPartEndsAtFirstNumber ==
  (pc = "detected") =>
    \A k \in 1..Len(expandedMatches) :
      LET m == expandedMatches[k]
          first == candidatesOf(m)[1]
          second == candidatesOf(m)[2]
      IN  /\ first.index = m.index
          /\ first.index + first.length = slashOffset(m, 2)
          /\ first.length > 0
          /\ first.index + first.length <= second.index

\* the numbers written in a code: its maximal runs of digits
RECURSIVE numbersFrom(_, _)
numbersFrom(s, p) ==
  IF p >= Len(s) THEN {}
  ELSE IF s[p + 1] \in Digit
       THEN {Slice(s, p, RunEnd(s, p, Digit))} \cup numbersFrom(s, RunEnd(s, p, Digit))
       ELSE numbersFrom(s, p + 1)

numbersOf(s) == numbersFrom(s, 0)

\* C28: findCourseInCatalog returns a catalog course that is not synthetic only
\* if the input has a number and every number of the input is one of the numbers
\* of that course; "P N1/N2" does not resolve to a course numbered N1N2 and an
\* input without a number does not resolve.
C28_ResolvedCourseHasInputNumbers ==
  (pc = "found" /\ result # null /\ ~isSynthetic(result)) =>
    /\ numbersOf(code.number) # {}
    /\ numbersOf(code.number) \subseteq numbersOf(result.course_code_original)

\* the request r has been delivered to the listener
delivered(r) == pc = "listener" /\ session.requests[r].at # "unsent"

\* C29: every message delivered to the listener is answered by exactly one call
\* of sendResponse: at once, with success = false and an error, when the message
\* is malformed or its type unknown; and once for GET_CATALOG_DATA and
\* FIND_COURSE, whether the catalog load succeeds or fails.
C29_RespondsExactlyOnce ==
  /\ [](\A r \in 1..MaxRequests :
          delivered(r) =>
            /\ session.requests[r].responses <= 1
            /\ (session.requests[r].at = "answered") <=> (session.requests[r].responses = 1)
            /\ (~session.requests[r].wellFormed \/ session.requests[r].type = "PING")
                 => /\ session.requests[r].responses = 1
                    /\ ~session.requests[r].success
                    /\ session.requests[r].error # "")
  /\ \A r \in 1..MaxRequests : delivered(r) ~> (session.requests[r].responses = 1)

\* one request answered with the catalog after a fetch, one answered with the
\* error of a failed load, one malformed message answered with an error
C29_Witness ==
  /\ pc = "listener"
  /\ session.fetches >= 2
  /\ \E r \in 1..MaxRequests :
       /\ session.requests[r].type = "GET_CATALOG_DATA"
       /\ session.requests[r].responses = 1
       /\ session.requests[r].success
  /\ \E r \in 1..MaxRequests :
       /\ session.requests[r].type = "FIND_COURSE"
       /\ session.requests[r].responses = 1
       /\ session.requests[r].error \in {"HTTP error", "Failed to fetch", "Invalid catalog format"}
  /\ \E r \in 1..MaxRequests :
       /\ ~session.requests[r].wellFormed
       /\ session.requests[r].responses = 1
       /\ session.requests[r].error = "Invalid message format"

\* C30: get(key) returns the value most recently stored by set(key, v) if that
\* set happened no more than ttl milliseconds ago and no caller has called
\* delete(key) or clear() since; in every other case it returns null.
C30_GetReturnsLastValueWithinTtl ==
  (pc = "got") =>
    LET last == session.stored[session.returned.key]
    IN  session.returned.value
          = IF last # none /\ ~last.removed /\ session.now - last.at <= session.ttl
            THEN last.value
            ELSE null

\* C31: when the storage holds no settings at install time, initializeSettings
\* writes DEFAULT_SETTINGS to it; when it holds settings, nothing is written and
\* the stored values are unchanged.
C31_DefaultsWrittenToEmptyStorage ==
  (pc = "installed" /\ session.errors = 0) =>
    session.storage = IF DOMAIN session.installed = {} THEN DEFAULT_SETTINGS
                      ELSE session.installed

\* the catalog positions of the entries that match the code directly
directMatches ==
  {i \in 1..Len(catalog) :
     doesCourseMatch(catalog[i], generateCourseCodeVariations(codeOf(code)))}

\* C32: findCourseInCatalog returns the first entry, in catalog order, that
\* matches the code directly; a synthetic course is returned only when no entry
\* matches the code directly.
C32_FirstDirectMatchWins ==
  (pc = "found") =>
    /\ directMatches # {} =>
         \E i \in directMatches :
           /\ \A j \in directMatches : i <= j
           /\ result = catalog[i]
    /\ isSynthetic(result) => directMatches = {}

\* two entries match the code directly and the first of them is returned
C32_Witness ==
  /\ pc = "found"
  /\ Cardinality(directMatches) >= 2
  /\ result = catalog[1]
  /\ result # catalog[2]

\* C33: highlighting a text node and then removing all highlights restores the
\* text: the concatenation of the text under the parent after the removal is the
\* text before highlighting, whatever the validated matches are.
C33_RemovalRestoresText ==
  (pc = "restored") => textOf(nodes) = text

\* C34: after every handler of a tooltip event (click, global click, ESC, section
\* or range cycling, the mouse and its timers) isPinned is true exactly when
\* pinnedElement is not null.
C34_PinnedIffPinnedElement ==
  (pc = "page") => (tooltip.isPinned <=> tooltip.pinnedElement # null)

\* ESC has unpinned a regular highlight that was pinned
C34_Witness ==
  /\ pc = "page"
  /\ tooltip.event = [type |-> "keydown", key |-> "Escape"]
  /\ ~tooltip.isPinned
  /\ tooltip.pinnedElement = null
  /\ tooltip.restoring # {}

\* C35: after every operation of the cache manager (set, get, delete, clear,
\* cleanup, an expiry timer firing) the keys with a pending expiry timer are the
\* keys stored in the cache.
C35_TimersMatchCache ==
  (pc \in {"cache", "got"}) =>
    {k \in CacheKeys : session.timers[k] # none} = {k \in CacheKeys : session.cache[k] # none}

\* one key has expired by its timer while the other is still stored
C35_Witness ==
  /\ pc = "cache"
  /\ session.stored["catalog_data"] # none
  /\ ~session.stored["catalog_data"].removed
  /\ session.cache["catalog_data"] = none
  /\ session.timers["catalog_data"] = none
  /\ session.cache["settings"] # none
  /\ session.timers["settings"] # none

\* C36: the lookup result shown in the popup is that of the most recently issued
\* lookup: the response to an earlier lookup that arrives after the response to
\* a later one does not replace the later result.
C36_LateResponseDoesNotReplace ==
  (pc = "popup" /\ session.shown.kind \in {"course", "not found", "error"}) =>
    session.shown.id = session.latest
----------------------------------------------------------------------------
(* Properties of the popup's toggles (SpecToggle) *)

\* C37: when the save of a toggled setting fails (the error is counted), the
\* in-memory settings are what they were, the toggle is back at the state it
\* had before the change, and no SETTINGS_UPDATED message has been sent.
C37_FailedSaveChangesNothing ==
  [][(pc = "toggle" /\ session'.errorCount > session.errorCount) =>
       \E save \in session.saves :
         /\ session'.saves = session.saves \ {save}
         /\ session'.settings = session.settings
         /\ session'.toggles[save.toggleId] = ~save.checked
         /\ session'.sent = session.sent]_vars

\* a save has failed after another one had succeeded and changed the settings
C37_Witness ==
  /\ pc = "toggle"
  /\ session.errorCount > 0
  /\ Len(session.sent) > 0
  /\ session.settings # loadSettings(<<>>)
----------------------------------------------------------------------------
(* Properties of validateSettings (SpecValidate) *)

\* C40: the validated object has exactly the keys of the defaults; a key has
\* the supplied value when the supplied object holds it with a value of the
\* type of its default, and the default otherwise; other supplied keys are
\* not in the result.
C40_ValidatedSettingsShape ==
  pc = "validated" =>
    /\ DOMAIN result = DOMAIN PopupDefaultSettings
    /\ \A key \in DOMAIN PopupDefaultSettings :
         IF key \in DOMAIN session
            /\ DOMAIN session[key] = DOMAIN PopupDefaultSettings[key]
         THEN result[key] = session[key]
         ELSE result[key] = PopupDefaultSettings[key]
    /\ \A key \in DOMAIN session \ DOMAIN PopupDefaultSettings : key \notin DOMAIN result

\* an object with an unknown key, a key of the wrong type and a key of the
\* right type whose value is not the default has been validated
C40_Witness ==
  /\ pc = "validated"
  /\ DOMAIN session = SuppliedKeys
  /\ session.showDescription = [string |-> "true"]
  /\ session.extensionEnabled = [boolean |-> FALSE]
  /\ result.extensionEnabled = [boolean |-> FALSE]
  /\ result.showDescription = [boolean |-> FALSE]
----------------------------------------------------------------------------
(* Properties of the pinned tooltip under the mouse (SpecHover) *)

\* the hide timer fires: HideDelayElapsed is the one step that handles a
\* timeout and clears a pending hide timer
hideDelayElapses ==
  /\ pc = "page"
  /\ tooltip.hideTimeout # null
  /\ tooltip'.hideTimeout = null
  /\ tooltip'.event.type = "timeout"

\* C38: while the tooltip is pinned to A, the mouse leaving A (the event and
\* its hide timer) leaves the tooltip as it is shown; and when the hide timer
\* of another highlight B fires, the tooltip shows the course A carries, in
\* pinned mode, and stays pinned to A.
C38_PinnedSurvivesHover ==
  [][/\ (pc = "page" /\ tooltip.isPinned /\ tooltip'.event.type = "mouseleave") =>
          /\ tooltip'.visible = tooltip.visible
          /\ tooltip'.pinned = tooltip.pinned
          /\ tooltip'.shown = tooltip.shown
     /\ (hideDelayElapses /\ tooltip.isPinned) =>
          IF tooltip.hideTimeout = tooltip.pinnedElement
          THEN /\ tooltip'.visible = tooltip.visible
               /\ tooltip'.pinned = tooltip.pinned
               /\ tooltip'.shown = tooltip.shown
          ELSE /\ tooltip'.visible
               /\ tooltip'.pinned
               /\ tooltip'.shown = tooltip.courseData[tooltip.pinnedElement]
               /\ tooltip'.isPinned
               /\ tooltip'.pinnedElement = tooltip.pinnedElement]_vars
----------------------------------------------------------------------------
(* Properties of the initialization guard (SpecPage) *)

\* the instances that went past the guard of init
passedGuard(s) == {i \in DOMAIN s.instances : s.instances[i].at \notin {"aborted", "skipped"}}

\* C39: on one page at most one instance passes the guard of init, so the data
\* is loaded, the tooltip created, the listeners registered and the content
\* processed at most once; and a call of init made once the flag is set
\* returns without doing any of these.
C39_OneInstanceInitializes ==
  [][pc = "init" =>
       /\ Cardinality(passedGuard(session')) <= 1
       /\ session'.loads <= 1 /\ session'.tooltips <= 1 /\ session'.listeners <= 1
       /\ session'.processings <= 1 /\ session'.observers <= 1
       /\ (session.caltechExtensionInitialized
             /\ Len(session'.instances) > Len(session.instances)) =>
            /\ \A i \in DOMAIN session'.instances \ DOMAIN session.instances :
                 session'.instances[i].at = "skipped"
            /\ session'.loads = session.loads
            /\ session'.tooltips = session.tooltips
            /\ session'.listeners = session.listeners
            /\ session'.processings = session.processings
            /\ session'.observers = session.observers]_vars

\* instances on a page: the first is ready, the later ones were skipped
C39_Witness ==
  /\ pc = "init"
  /\ Len(session.instances) >= 3
  /\ session.instances[1].at = "ready"
  /\ session.instances[2].at = "skipped"
  /\ session.instances[3].at = "skipped"
  /\ session.loads = 1 /\ session.tooltips = 1 /\ session.processings = 1

====
